---- MODULE Spec2Model ----
(***************************************************************************)
(* A model of the ShortShorts processing pipelines.                        *)
(*                                                                         *)
(* Server side: POST /api/process validates a request, creates a job       *)
(* record in the job store and starts processVideo, which walks the job    *)
(* through its stages, writing progress to the job store after every unit  *)
(* of work and ending with completeJob or failJob.                         *)
(*                                                                         *)
(* Browser side: the ProcessStep component runs the same stages inside the *)
(* page with the browser FFmpeg helpers.                                   *)
(*                                                                         *)
(* The two pipelines live in different processes and share no state: a     *)
(* behaviour follows one of them (Init == InitServer \/ InitBrowser) and   *)
(* the other stays inert.                                                  *)
(*                                                                         *)
(* Numbers.  `progress` in the code is a float in percent.  The model      *)
(* stores progress * 10 * totalSegments, an integer for every value the    *)
(* code computes ((i+1)/n*100 times 1, 0.5, 0.7 or 0.9), so comparisons    *)
(* are exact.                                                              *)
(*                                                                         *)
(* Optional values (a field that may be undefined) are sequences of length *)
(* at most one: None is undefined, Some(v) is the value v.                 *)
(***************************************************************************)
EXTENDS Integers, Sequences, FiniteSets, TLC

VARIABLES
    \* ---- server: POST /api/process and processVideo
    body,               \* the parsed request body
    response,           \* HTTP status of the POST response, None before it
    memoryStore,        \* the job store: job id -> job record
    pc,                 \* position of the server run
    segIdx,             \* loop index i of processVideo (1-based here)
    ttsResults,         \* processVideo's ttsResults
    clipData,           \* the clip of the segment in work, between steps
    processedSegments,  \* processVideo's processedSegments
    musicData,          \* processVideo's musicData
    finalVideo,         \* what stitchSegments returned
    uploaded,           \* the url put() returned
    caught,             \* the error caught by processVideo's catch
    fs,                 \* file names in the server FFmpeg virtual filesystem
    shown,              \* per stage, the highest progress a status read met
    terminalWrites,     \* number of completeJob / failJob writes persisted
    \* ---- browser: ProcessStep.processVideo
    project,            \* the project store's project
    processingState,    \* the component's processingState
    processingRef,      \* processingRef.current
    bpc,                \* position of the browser run
    bIdx,               \* loop index i of the browser run (1-based here)
    bTtsResults,        \* the browser run's ttsResults
    extractedClips,     \* the browser run's extractedClips
    frames,             \* the frames extracted from the clip in work
    croppedClip,        \* the cropped clip of the segment in work
    processedClips,     \* the browser run's processedClips
    musicBlob,          \* the browser run's musicBlob
    browserFs,          \* file names in the browser FFmpeg virtual filesystem
    \* ---- engine initialisation: getFFmpeg / initFaceDetector
    loader,             \* the module state of one engine loader
    callers,            \* the callers of its get function
    \* ---- the polling client: ProcessStep of the server mode
    poller,             \* the component's polling state
    \* ---- pure functions
    calc                \* a function, its arguments and its result

serverVars == <<body, response, memoryStore, pc, segIdx, ttsResults,
                clipData, processedSegments, musicData, finalVideo, uploaded, caught, fs, shown,
                terminalWrites>>
browserVars == <<project, processingState, processingRef, bpc, bIdx,
                 bTtsResults, extractedClips, frames, croppedClip, processedClips, musicBlob,
                 browserFs>>
engineVars == <<loader, callers>>
pollVars == <<poller>>
calcVars == <<calc>>
sideVars == <<engineVars, pollVars, calcVars>>
vars == <<serverVars, browserVars, sideVars>>

\* ------------------------------------------------------------------ bounds

\* Longest segment list of a request or project.
MaxSegments == 6

\* ------------------------------------------------------------------ values

None == <<>>
Some(v) == <<v>>

\* The only job id of a behaviour (uuidv4() in POST).
JobId == "job-1"

\* Segment lists: segment ids in ascending and in descending order, so that
\* the position of a segment and its id differ.
Ascending(n) == [k \in 1..n |-> k]
Descending(n) == [k \in 1..n |-> n + 1 - k]
SegmentLists == {Ascending(n) : n \in 0..MaxSegments}
                    \cup {Descending(n) : n \in 2..MaxSegments}

\* ProcessingStage, in the order of its declaration.
StageOrder == <<"queued", "loading", "tts", "extracting", "detecting",
                "cropping", "stitching", "complete">>
Stages == {StageOrder[k] : k \in DOMAIN StageOrder} \cup {"error"}
StageRank(s) == CHOOSE k \in DOMAIN StageOrder : StageOrder[k] = s

\* progress p percent of a job with n segments, in the model's unit.
Percent(p, n) == p * 10 * n

\* An error value thrown by a step: an Error with a message, or a value that
\* is not an Error.
ThrownBy(step) == {[isError |-> TRUE, message |-> step],
                   [isError |-> FALSE, message |-> step]}
\* The binding of the catch before anything was thrown.
Undefined == [isError |-> FALSE, message |-> "undefined"]
JobNotFound == [isError |-> TRUE, message |-> "Job not found"]
\* What a rejected Redis call of the job store throws.
StoreWriteError == [isError |-> TRUE, message |-> "job store write failed"]
StoreErrors == {JobNotFound, StoreWriteError}

\* ------------------------------------------------------------ job store
\* src/lib/server/job-store.ts, the in-memory and the Redis store alike: a
\* write either persists the whole record or throws and persists nothing.

\* a ?? b
Coalesce(opt, default) == IF opt = None THEN default ELSE opt[1]

\* !v for an optional string
Falsy(opt) == opt = None \/ opt[1] = ""

\* body.musicVolume ?? 0.3, in tenths
DefaultMusicVolume == 3

createJob(store, job) == (job.id :> job) @@ store

getJob(store, jobId) == IF jobId \in DOMAIN store THEN Some(store[jobId]) ELSE None

\* As updateJob, moving createdAt forward as updatedAt moves.
updateJobStampsCreation(store, jobId, updates) ==
    LET job == store[jobId]
        updatedJob == [k \in DOMAIN job |->
                          IF k \in DOMAIN updates THEN updates[k]
                          ELSE IF k = "createdAt" THEN job[k] + 1 ELSE job[k]]
    IN  (jobId :> updatedJob) @@ store

\* { ...job, ...updates }: every key of updates overrides, also a key whose
\* value is undefined.
updateJob(store, jobId, updates) ==
    LET job == store[jobId]
        updatedJob == [k \in DOMAIN job |->
                          IF k \in DOMAIN updates THEN updates[k] ELSE job[k]]
    IN  (jobId :> updatedJob) @@ store

StatusOfStage(stage) ==
    IF stage = "complete" THEN "complete"
    ELSE IF stage = "error" THEN "error" ELSE "processing"

updateJobProgress(store, jobId, stage, progress, message, currentSegment) ==
    updateJob(store, jobId,
              [stage |-> stage, progress |-> progress, message |-> message,
               currentSegment |-> currentSegment,
               status |-> StatusOfStage(stage)])

completeJob(store, jobId, outputUrl, captions) ==
    updateJob(store, jobId,
              [status |-> "complete", stage |-> "complete",
               progress |-> Percent(100, store[jobId].totalSegments),
               message |-> "Processing complete",
               outputUrl |-> Some(outputUrl), captions |-> captions,
               completedAt |-> Some("now")])

\* As failJob, leaving the stage as it was.
failJobKeepsStage(store, jobId, error) ==
    updateJob(store, jobId,
              [status |-> "error", message |-> "Processing failed",
               error |-> Some(error)])

failJob(store, jobId, error) ==
    updateJob(store, jobId,
              [status |-> "error", stage |-> "error",
               message |-> "Processing failed", error |-> Some(error)])

\* ------------------------------------------------------ POST /api/process

\* As ValidationError, without the check of segments.length.
ValidationErrorNoLength(b) ==
    IF Falsy(b.videoUrl) THEN Some("videoUrl is required")
    ELSE IF b.segments = None
         THEN Some("segments array is required and must not be empty")
    ELSE IF Falsy(b.voiceId) THEN Some("voiceId is required")
    ELSE None

\* The three validation checks of POST, in order: the error of the first one
\* that fails, None when the body passes.
ValidationError(b) ==
    IF Falsy(b.videoUrl) THEN Some("videoUrl is required")
    ELSE IF b.segments = None \/ Len(b.segments[1]) = 0
         THEN Some("segments array is required and must not be empty")
    ELSE IF Falsy(b.voiceId) THEN Some("voiceId is required")
    ELSE None

\* const now = Date.now() of POST; times count from it.
CreationTime == 0

\* The job record POST builds.
NewJob(b) ==
    [id |-> JobId, status |-> "pending", stage |-> "queued", progress |-> 0,
     currentSegment |-> Some(0), totalSegments |-> Len(b.segments[1]),
     message |-> "Job queued", error |-> None,
     videoUrl |-> b.videoUrl[1], segments |-> b.segments[1],
     voiceId |-> b.voiceId[1], musicUrl |-> b.musicUrl,
     musicVolume |-> Coalesce(b.musicVolume, DefaultMusicVolume),
     includeCaptions |-> Coalesce(b.includeCaptions, FALSE),
     outputUrl |-> None, captions |-> None, completedAt |-> None,
     createdAt |-> CreationTime]

Bodies ==
    [videoUrl : {None, Some(""), Some("video.mp4")},
     segments : {None} \cup {Some(l) : l \in SegmentLists},
     voiceId : {None, Some("voice")},
     musicUrl : {None, Some("music.wav")},
     musicVolume : {None, Some(0), Some(15)},
     includeCaptions : {None, Some(TRUE)}]

\* The highest progress a status read has met at each stage, after a read of
\* the record `job` (GET /api/status/[jobId] returns stage and progress of
\* the stored record).
Observe(seen, job) ==
    [seen EXCEPT ![job.stage] =
        IF job.progress > seen[job.stage] THEN job.progress ELSE seen[job.stage]]

\* POST: validate, build the job, createJob, start processVideo.  request.json()
\* and createJob may reject: the catch answers 500.
POST ==
    /\ pc = "request"
    /\ \E jsonOk \in BOOLEAN, createOk \in BOOLEAN :
          IF ~jsonOk
          THEN /\ response' = Some(500)
               /\ pc' = "rejected"
               /\ UNCHANGED <<memoryStore, shown>>
          ELSE IF ValidationError(body) # None
          THEN /\ response' = Some(400)
               /\ pc' = "rejected"
               /\ UNCHANGED <<memoryStore, shown>>
          ELSE IF ~createOk
          THEN /\ response' = Some(500)
               /\ pc' = "rejected"
               /\ UNCHANGED <<memoryStore, shown>>
          ELSE /\ memoryStore' = createJob(memoryStore, NewJob(body))
               /\ shown' = Observe(shown, NewJob(body))
               /\ response' = Some(200)
               /\ pc' = "loading0"
    /\ UNCHANGED <<body, segIdx, ttsResults, clipData, processedSegments, musicData,
                   finalVideo, uploaded, caught, fs, terminalWrites>>
    /\ UNCHANGED <<browserVars, sideVars>>


\* ------------------------------------------------- server scratch files

\* A file of the virtual filesystem: a name and, for the numbered files,
\* the number in the name (0 for the others).
File(name, k) == <<name, k>>

\* How one call of extractClip / applyCrop / adjustDuration can go:
\*   ok          writeFile, exec, readFile and both deleteFile calls return
\*   writeFails  writeFile throws: nothing was written
\*   execFails   the output was not produced: exec or readFile throws
\*   execBreaks  exec throws after it began to write the output
StepOutcomes == {"ok", "writeFails", "execFails", "execBreaks"}

\* The files a call has written when it ends with `outcome`.
WrittenBy(inputName, outputName, outcome) ==
    CASE outcome = "ok" -> {inputName, outputName}
      [] outcome = "writeFails" -> {}
      [] outcome = "execFails" -> {inputName}
      [] outcome = "execBreaks" -> {inputName, outputName}

\* The filesystem after such a call.  The helpers delete their files only on
\* the path on which every call returned: there is no try/finally.
ServerStepFs(files, inputName, outputName, outcome) ==
    IF outcome = "ok"
    THEN (files \cup WrittenBy(inputName, outputName, outcome))
             \ {inputName, outputName}
    ELSE files \cup WrittenBy(inputName, outputName, outcome)

\* ---------------------------------------------------------- processVideo

Job == memoryStore[JobId]
NumSegments == Job.totalSegments

\* catch (error) { await failJob(job.id, error instanceof Error ?
\*                               error.message : 'Unknown error occurred') }
ErrorText(e) == IF e.isError THEN e.message ELSE "Unknown error occurred"

\* As AfterCompleteJob, with a statement after completeJob that throws inside
\* the try block.
AfterCompleteJobThrows == "catch"

\* The position after `await completeJob(...)` returned: the try block ends.
AfterCompleteJob == "done"

\* A throw inside the try block: control moves to the catch.
Throw(e) ==
    /\ pc' = "catch"
    /\ caught' = e

\* await updateJobProgress(job.id, stage, progress, message, currentSegment)
\* at position `at`: on return the run is at `next`, a throw goes to the catch.
WriteProgress(at, next, stage, percent, message, currentSegment) ==
    /\ pc = at
    /\ \E ok \in BOOLEAN :
          IF getJob(memoryStore, JobId) = None
          THEN /\ Throw(JobNotFound)
               /\ UNCHANGED <<memoryStore, shown>>
          ELSE IF ~ok
          THEN /\ Throw(StoreWriteError)
               /\ UNCHANGED <<memoryStore, shown>>
          ELSE /\ memoryStore' = updateJobProgress(memoryStore, JobId, stage,
                                    percent, message, currentSegment)
               /\ shown' = Observe(shown, memoryStore'[JobId])
               /\ pc' = next
               /\ caught' = caught
    /\ UNCHANGED terminalWrites

\* An awaited external call at position `at` that touches no model state
\* but may throw.
ExternalCall(at, next) ==
    /\ pc = at
    /\ \/ /\ pc' = next
          /\ caught' = caught
       \/ \E e \in ThrownBy(at) : Throw(e)

\* `Synthesizing segment ${i + 1}/${job.segments.length}...` and the like
SegmentMessage(text, i, n) ==
    text \o " " \o ToString(i) \o "/" \o ToString(n) \o "..."

\* Stage 1
WriteLoading0 ==
    /\ WriteProgress("loading0", "getFFmpeg", "loading", 0,
                     "Loading FFmpeg...", None)
    /\ UNCHANGED <<body, response, segIdx, ttsResults, clipData, processedSegments,
                   musicData, finalVideo, uploaded, fs>>
    /\ UNCHANGED <<browserVars, sideVars>>

GetFFmpeg ==
    /\ ExternalCall("getFFmpeg", "loading100")
    /\ UNCHANGED <<body, response, memoryStore, segIdx, ttsResults,
                   clipData, processedSegments, musicData, finalVideo, uploaded, fs, shown,
                   terminalWrites>>
    /\ UNCHANGED <<browserVars, sideVars>>

WriteLoading100 ==
    /\ WriteProgress("loading100", "extracting0", "loading",
                     Percent(100, NumSegments),
                     "FFmpeg loaded", None)
    /\ UNCHANGED <<body, response, segIdx, ttsResults, clipData, processedSegments,
                   musicData, finalVideo, uploaded, fs>>
    /\ UNCHANGED <<browserVars, sideVars>>

\* Stage 2
WriteExtracting0 ==
    /\ WriteProgress("extracting0", "downloadVideo", "extracting", 0,
                     "Downloading source video...", None)
    /\ UNCHANGED <<body, response, segIdx, ttsResults, clipData, processedSegments,
                   musicData, finalVideo, uploaded, fs>>
    /\ UNCHANGED <<browserVars, sideVars>>

DownloadVideo ==
    /\ ExternalCall("downloadVideo", "extracting20")
    /\ UNCHANGED <<body, response, memoryStore, segIdx, ttsResults,
                   clipData, processedSegments, musicData, finalVideo, uploaded, fs, shown,
                   terminalWrites>>
    /\ UNCHANGED <<browserVars, sideVars>>

WriteExtracting20 ==
    /\ WriteProgress("extracting20", "tts0", "extracting",
                     Percent(20, NumSegments),
                     "Source video downloaded", None)
    /\ UNCHANGED <<body, response, segIdx, ttsResults, clipData, processedSegments,
                   musicData, finalVideo, uploaded, fs>>
    /\ UNCHANGED <<browserVars, sideVars>>

\* Stage 3.  The job has at least one segment, so the loop body is entered.
WriteTts0 ==
    /\ WriteProgress("tts0", "ttsProgress", "tts", 0,
                     "Generating voiceover...", None)
    /\ segIdx' = 1
    /\ UNCHANGED <<body, response, ttsResults, clipData, processedSegments, musicData,
                   finalVideo, uploaded, fs>>
    /\ UNCHANGED <<browserVars, sideVars>>

\* progress = ((i + 1) / n) * 100, with the code's i + 1 = segIdx
LoopProgress(k, n) == (k * Percent(100, n)) \div n

WriteTtsProgress ==
    /\ WriteProgress("ttsProgress", "generateTTS", "tts",
                     LoopProgress(segIdx, NumSegments),
                     SegmentMessage("Synthesizing segment", segIdx, NumSegments), Some(segIdx))
    /\ UNCHANGED <<body, response, segIdx, ttsResults, clipData, processedSegments,
                   musicData, finalVideo, uploaded, fs>>
    /\ UNCHANGED <<browserVars, sideVars>>

\* The voiceover of a segment: generateTTS(segment.script, job.voiceId).
Voiceover(segment) == [of |-> segment]

\* generateTTS throws when segment.script is no string (the request's
\* segments are not validated).
GenerateTTS ==
    /\ pc = "generateTTS"
    /\ \/ /\ ttsResults' = Append(ttsResults, Voiceover(Job.segments[segIdx]))
          /\ IF segIdx < NumSegments
             THEN pc' = "ttsProgress" /\ segIdx' = segIdx + 1
             ELSE pc' = "detecting0" /\ segIdx' = segIdx
          /\ caught' = caught
       \/ /\ \E e \in ThrownBy("generateTTS") : Throw(e)
          /\ UNCHANGED <<ttsResults, segIdx>>
    /\ UNCHANGED <<body, response, memoryStore, clipData, processedSegments, musicData,
                   finalVideo, uploaded, fs, shown, terminalWrites>>
    /\ UNCHANGED <<browserVars, sideVars>>


\* Stage 4
WriteDetecting0 ==
    /\ WriteProgress("detecting0", "detectingProgress", "detecting", 0,
                     "Processing video segments...", None)
    /\ segIdx' = 1
    /\ UNCHANGED <<body, response, ttsResults, clipData, processedSegments,
                   musicData, finalVideo, uploaded, fs>>
    /\ UNCHANGED <<browserVars, sideVars>>

\* progress * f, for the factors 0.5, 0.7 and 0.9 given in tenths
Scaled(progress, tenths) == (progress * tenths) \div 10

WriteDetectingProgress ==
    /\ WriteProgress("detectingProgress", "extractClip", "detecting",
                     Scaled(LoopProgress(segIdx, NumSegments), 5),
                     SegmentMessage("Extracting clip", segIdx, NumSegments), Some(segIdx))
    /\ UNCHANGED <<body, response, segIdx, ttsResults, clipData,
                   processedSegments, musicData, finalVideo, uploaded, fs>>
    /\ UNCHANGED <<browserVars, sideVars>>

\* One of the three media helpers at position `at`: it writes inputName,
\* runs FFmpeg into outputName, reads outputName back and deletes both.
ServerMediaStep(at, next, inputName, outputName, result) ==
    /\ pc = at
    /\ \E outcome \in StepOutcomes :
          /\ fs' = ServerStepFs(fs, inputName, outputName, outcome)
          /\ IF outcome = "ok"
             THEN /\ clipData' = Some(result)
                  /\ pc' = next
                  /\ caught' = caught
             ELSE /\ \E e \in ThrownBy(at) : Throw(e)
                  /\ clipData' = clipData

\* extractClip(ffmpeg, videoData, segment.sourceTimestamp, 10, `clip_${i}.mp4`)
ExtractClip ==
    /\ ServerMediaStep("extractClip", "cropping70",
                       File("input.mp4", 0), File("clip_", segIdx - 1),
                       [of |-> Job.segments[segIdx], fitted |-> None])
    /\ UNCHANGED <<body, response, memoryStore, segIdx, ttsResults,
                   processedSegments, musicData, finalVideo, uploaded, shown,
                   terminalWrites>>
    /\ UNCHANGED <<browserVars, sideVars>>

WriteCropping70 ==
    /\ WriteProgress("cropping70", "applyCrop", "cropping",
                     Scaled(LoopProgress(segIdx, NumSegments), 7),
                     SegmentMessage("Cropping clip", segIdx, NumSegments), Some(segIdx))
    /\ UNCHANGED <<body, response, segIdx, ttsResults, clipData,
                   processedSegments, musicData, finalVideo, uploaded, fs>>
    /\ UNCHANGED <<browserVars, sideVars>>

\* applyCrop(ffmpeg, clipData, `cropped_${i}.mp4`)
ApplyCrop ==
    /\ ServerMediaStep("applyCrop", "cropping90",
                       File("clip_input.mp4", 0), File("cropped_", segIdx - 1),
                       clipData[1])
    /\ UNCHANGED <<body, response, memoryStore, segIdx, ttsResults,
                   processedSegments, musicData, finalVideo, uploaded, shown,
                   terminalWrites>>
    /\ UNCHANGED <<browserVars, sideVars>>

WriteCropping90 ==
    /\ WriteProgress("cropping90", "adjustDuration", "cropping",
                     Scaled(LoopProgress(segIdx, NumSegments), 9),
                     SegmentMessage("Adjusting duration", segIdx, NumSegments), Some(segIdx))
    /\ UNCHANGED <<body, response, segIdx, ttsResults, clipData,
                   processedSegments, musicData, finalVideo, uploaded, fs>>
    /\ UNCHANGED <<browserVars, sideVars>>

\* The index of the voiceover that the clip of segment k is matched and
\* paired with: const ttsResult = ttsResults[i].
TtsIndex(k) == k

\* adjustDuration(ffmpeg, croppedData, ttsResult.duration, `adjusted_${i}.mp4`)
\* and processedSegments.push({video, audio, duration}).
AdjustDuration ==
    /\ pc = "adjustDuration"
    /\ LET ttsResult == ttsResults[TtsIndex(segIdx)]
           adjusted == [clipData[1] EXCEPT !.fitted = Some(ttsResult)]
       IN  \E outcome \in StepOutcomes :
              /\ fs' = ServerStepFs(fs, File("adjust_input.mp4", 0),
                                    File("adjusted_", segIdx - 1), outcome)
              /\ IF outcome = "ok"
                 THEN /\ processedSegments' =
                            Append(processedSegments,
                                   [video |-> adjusted, audio |-> ttsResult])
                      /\ clipData' = None
                      /\ caught' = caught
                      /\ IF segIdx < NumSegments
                         THEN pc' = "detectingProgress" /\ segIdx' = segIdx + 1
                         ELSE /\ segIdx' = segIdx
                              /\ pc' = IF Job.musicUrl # None
                                       THEN "stitching0" ELSE "stitching20"
                 ELSE /\ \E e \in ThrownBy("adjustDuration") : Throw(e)
                      /\ UNCHANGED <<processedSegments, clipData, segIdx>>
    /\ UNCHANGED <<body, response, memoryStore, ttsResults, musicData,
                   finalVideo, uploaded, shown, terminalWrites>>
    /\ UNCHANGED <<browserVars, sideVars>>

\* Stage 5, entered when job.musicUrl is set.  The job passed to
\* processVideo is the record POST created.
WriteStitching0 ==
    /\ WriteProgress("stitching0", "downloadMusic", "stitching", 0,
                     "Loading background music...", None)
    /\ UNCHANGED <<body, response, segIdx, ttsResults, clipData,
                   processedSegments, musicData, finalVideo, uploaded, fs>>
    /\ UNCHANGED <<browserVars, sideVars>>

\* downloadFile(job.musicUrl): fetch rejects, or the response is not ok and
\* downloadFile throws.
DownloadMusic ==
    /\ pc = "downloadMusic"
    /\ \/ /\ musicData' = Job.musicUrl
          /\ pc' = "stitching20"
          /\ caught' = caught
       \/ /\ \E e \in ThrownBy("downloadMusic") : Throw(e)
          /\ musicData' = musicData
    /\ UNCHANGED <<body, response, memoryStore, segIdx, ttsResults, clipData,
                   processedSegments, finalVideo, uploaded, fs, shown, terminalWrites>>
    /\ UNCHANGED <<browserVars, sideVars>>


\* ------------------------------------------------ stitchSegments (server)

\* As ConcatOrder, with the list built by unshift instead of push.
ConcatOrderReversed(n) == [k \in 1..n |-> n + 1 - k]

\* The order in which the loop of stitchSegments lists the combined files in
\* concat.txt: entry k names the file combined from segments[ConcatOrder(n)[k]].
ConcatOrder(n) == [k \in 1..n |-> k]

\* musicData && musicVolume > 0
MixesMusic(music, volume) == music # None /\ volume > 0

\* What stitchSegments returns: the combined (video, audio) pairs in the
\* order of concat.txt, and the music mixed under them.
StitchOutput(segments, music, volume) ==
    [parts |-> [k \in 1..Len(segments) |->
                    segments[ConcatOrder(Len(segments))[k]]],
     music |-> IF MixesMusic(music, volume) THEN music ELSE None]

\* Where stitchSegments can throw: 0 nowhere, k in 1..n while combining
\* segment k, n+1 at the concat, n+2 at the music mix, n+3 at the final read.
StitchFailurePoints(n, mixes) ==
    (0..(n + 3)) \ (IF mixes THEN {} ELSE {n + 2})

\* The files stitchSegments leaves behind when it throws at failAt.
StitchLeftovers(n, failAt) ==
    IF failAt = 0 \/ failAt = n + 3 THEN {}
    ELSE IF failAt <= n
    THEN {File("seg_mp4_", failAt - 1), File("seg_wav_", failAt - 1)}
            \cup {File("combined_", j - 1) : j \in 1..(failAt - 1)}
    ELSE IF failAt = n + 1
    THEN {File("combined_", j - 1) : j \in 1..n} \cup {File("concat.txt", 0)}
    ELSE {File("concatenated.mp4", 0), File("music.wav", 0)}

\* Stage 6
WriteStitching20 ==
    /\ WriteProgress("stitching20", "stitchSegments", "stitching",
                     Percent(20, NumSegments),
                     "Stitching final video...", None)
    /\ UNCHANGED <<body, response, segIdx, ttsResults, clipData,
                   processedSegments, musicData, finalVideo, uploaded, fs>>
    /\ UNCHANGED <<browserVars, sideVars>>

StitchSegments ==
    /\ pc = "stitchSegments"
    /\ \E failAt \in StitchFailurePoints(Len(processedSegments),
                                         MixesMusic(musicData, Job.musicVolume)) :
          /\ fs' = fs \cup StitchLeftovers(Len(processedSegments), failAt)
          /\ IF failAt = 0
             THEN /\ finalVideo' = Some(StitchOutput(processedSegments,
                                            musicData, Job.musicVolume))
                  /\ pc' = "stitching80"
                  /\ caught' = caught
             ELSE /\ \E e \in ThrownBy("stitchSegments") : Throw(e)
                  /\ finalVideo' = finalVideo
    /\ UNCHANGED <<body, response, memoryStore, segIdx, ttsResults, clipData,
                   processedSegments, musicData, uploaded, shown,
                   terminalWrites>>
    /\ UNCHANGED <<browserVars, sideVars>>

WriteStitching80 ==
    /\ WriteProgress("stitching80", "upload", "stitching",
                     Percent(80, NumSegments),
                     "Uploading final video...", None)
    /\ UNCHANGED <<body, response, segIdx, ttsResults, clipData,
                   processedSegments, musicData, finalVideo, uploaded, fs>>
    /\ UNCHANGED <<browserVars, sideVars>>

\* put(outputFilename, outputBlob, ...)
Upload ==
    /\ pc = "upload"
    /\ \/ /\ uploaded' = Some("outputs/job-1/final.mp4")
          /\ pc' = "completeJob"
          /\ caught' = caught
       \/ /\ \E e \in ThrownBy("upload") : Throw(e)
          /\ uploaded' = uploaded
    /\ UNCHANGED <<body, response, memoryStore, segIdx, ttsResults, clipData,
                   processedSegments, musicData, finalVideo, fs, shown,
                   terminalWrites>>
    /\ UNCHANGED <<browserVars, sideVars>>

\* generateCaptions(job.segments, durations): one entry per segment, in order.
ServerCaptions(segments) == [k \in 1..Len(segments) |-> [segmentId |-> segments[k]]]

\* await completeJob(job.id, uploaded.url, captions)
CompleteJob ==
    /\ pc = "completeJob"
    /\ \E ok \in BOOLEAN :
          IF getJob(memoryStore, JobId) = None
          THEN /\ Throw(JobNotFound)
               /\ UNCHANGED <<memoryStore, shown, terminalWrites>>
          ELSE IF ~ok
          THEN /\ Throw(StoreWriteError)
               /\ UNCHANGED <<memoryStore, shown, terminalWrites>>
          ELSE /\ memoryStore' =
                     completeJob(memoryStore, JobId, uploaded[1],
                                 IF Job.includeCaptions
                                 THEN Some(ServerCaptions(Job.segments))
                                 ELSE None)
               /\ shown' = Observe(shown, memoryStore'[JobId])
               /\ terminalWrites' = terminalWrites + 1
               /\ pc' = AfterCompleteJob
               /\ caught' = caught
    /\ UNCHANGED <<body, response, segIdx, ttsResults, clipData,
                   processedSegments, musicData, finalVideo, uploaded, fs>>
    /\ UNCHANGED <<browserVars, sideVars>>

\* catch (error) { await failJob(job.id, ...) }: a throw of failJob rejects
\* the promise of processVideo.
FailJob ==
    /\ pc = "catch"
    /\ \E ok \in BOOLEAN :
          IF getJob(memoryStore, JobId) = None \/ ~ok
          THEN /\ pc' = "unhandled"
               /\ UNCHANGED <<memoryStore, shown, terminalWrites>>
          ELSE /\ memoryStore' = failJob(memoryStore, JobId, ErrorText(caught))
               /\ shown' = Observe(shown, memoryStore'[JobId])
               /\ terminalWrites' = terminalWrites + 1
               /\ pc' = "done"
    /\ UNCHANGED <<body, response, segIdx, ttsResults, clipData,
                   processedSegments, musicData, finalVideo, uploaded, caught,
                   fs>>
    /\ UNCHANGED <<browserVars, sideVars>>


\* ------------------------------------------- browser FFmpeg helpers
\* extractClip, extractFrames, cropVideo, adjustDuration of src/lib/ffmpeg:
\* each writes input.mp4, runs FFmpeg and deletes its files in a finally;
\* deleteFile of the client swallows the error of a missing file.

\* Most frames one extractFrames call writes in the model.
MaxFrames == 2

\* The filesystem after extractClip / cropVideo / adjustDuration, however
\* the call went: the finally deletes the input and the output.
BrowserStepFs(files, inputName, outputName, outcome) ==
    (files \cup WrittenBy(inputName, outputName, outcome))
        \ {inputName, outputName}

FrameFiles(m) == {File("frame_", k) : k \in 1..m}

\* The filesystem after extractFrames with m frames written by FFmpeg: on
\* return the loop has read and deleted every frame; when exec throws the
\* frames it wrote stay, the finally deletes input.mp4 only.
ExtractFramesFs(files, m, outcome) ==
    CASE outcome = "ok" -> ((files \cup {File("input.mp4", 0)} \cup FrameFiles(m))
                               \ FrameFiles(m)) \ {File("input.mp4", 0)}
      [] outcome = "writeFails" -> files \ {File("input.mp4", 0)}
      [] outcome = "execFails" -> files \ {File("input.mp4", 0)}
      [] outcome = "execBreaks" ->
            (files \cup {File("input.mp4", 0)} \cup FrameFiles(m))
                \ {File("input.mp4", 0)}

\* ------------------------------------------ ProcessStep.processVideo

\* setProcessingState((prev) => ({ ...prev, ...updates }))
updateProgress(state, updates) ==
    [k \in DOMAIN state |-> IF k \in DOMAIN updates THEN updates[k] ELSE state[k]]

BrowserN == Len(project.segments)

\* The catch and the finally of the browser run: they run without an await.
BrowserFail(e) ==
    /\ processingState' = updateProgress(processingState,
                              [stage |-> "error", error |-> Some(ErrorText(e))])
    /\ processingRef' = FALSE
    /\ bpc' = "done"

\* The first part of processVideo, up to `await getFFmpeg()`.
BStart ==
    /\ bpc = "mounted"
    /\ IF ~project.videoFile \/ ~project.selectedVoice \/ BrowserN = 0
       THEN /\ processingState' =
                  updateProgress(processingState,
                      [stage |-> "error",
                       error |-> Some("Please ensure video, voice, and script are configured.")])
            /\ bpc' = "done"
            /\ UNCHANGED processingRef
       ELSE IF processingRef
       THEN /\ bpc' = "done"
            /\ UNCHANGED <<processingState, processingRef>>
       ELSE /\ processingRef' = TRUE
            /\ processingState' = updateProgress(processingState,
                                      [stage |-> "loading", progress |-> 0])
            /\ bpc' = "getFFmpeg"
    /\ UNCHANGED <<project, bIdx, bTtsResults, extractedClips, frames,
                   croppedClip, processedClips, musicBlob, browserFs>>
    /\ UNCHANGED <<serverVars, sideVars>>

\* await getFFmpeg(), then the updates up to the first synthesizeText.
BGetFFmpeg ==
    /\ bpc = "getFFmpeg"
    /\ \/ /\ processingState' =
                updateProgress(processingState,
                    [stage |-> "tts", currentSegment |-> 1,
                     progress |-> LoopProgress(0, BrowserN)])
          /\ bIdx' = 1
          /\ bpc' = "synthesizeText"
          /\ UNCHANGED processingRef
       \/ /\ \E e \in ThrownBy("getFFmpeg") : BrowserFail(e)
          /\ UNCHANGED bIdx
    /\ UNCHANGED <<project, bTtsResults, extractedClips, frames,
                   croppedClip, processedClips, musicBlob, browserFs>>
    /\ UNCHANGED <<serverVars, sideVars>>

\* generateCaptions(project.segments, durations): one entry per segment.
BrowserCaptions(segments) == [k \in 1..Len(segments) |-> [segmentId |-> segments[k]]]

\* await synthesizeText(segment.script, project.selectedVoice); after the
\* last segment the captions are stored and the extraction loop is entered.
BSynthesizeText ==
    /\ bpc = "synthesizeText"
    /\ \/ /\ bTtsResults' = Append(bTtsResults, Voiceover(project.segments[bIdx]))
          /\ IF bIdx < BrowserN
             THEN /\ bIdx' = bIdx + 1
                  /\ processingState' =
                        updateProgress(processingState,
                            [stage |-> "tts", currentSegment |-> bIdx + 1,
                             progress |-> LoopProgress(bIdx, BrowserN)])
                  /\ bpc' = "synthesizeText"
                  /\ UNCHANGED project
             ELSE /\ bIdx' = 1
                  /\ project' = IF project.includeCaptions
                                THEN [project EXCEPT !.captions =
                                         Some(BrowserCaptions(project.segments))]
                                ELSE project
                  /\ processingState' =
                        updateProgress(processingState,
                            [stage |-> "extracting", currentSegment |-> 1,
                             progress |-> LoopProgress(0, BrowserN)])
                  /\ bpc' = "extractClip"
          /\ UNCHANGED processingRef
       \/ /\ \E e \in ThrownBy("synthesizeText") : BrowserFail(e)
          /\ UNCHANGED <<project, bIdx, bTtsResults>>
    /\ UNCHANGED <<extractedClips, frames, croppedClip, processedClips, musicBlob, browserFs>>
    /\ UNCHANGED <<serverVars, sideVars>>

\* await extractClip(project.videoFile, segment.sourceTimestamp, 10)
BExtractClip ==
    /\ bpc = "extractClip"
    /\ \E outcome \in StepOutcomes :
          /\ browserFs' = BrowserStepFs(browserFs, File("input.mp4", 0),
                                        File("clip.mp4", 0), outcome)
          /\ IF outcome = "ok"
             THEN /\ extractedClips' =
                        Append(extractedClips,
                               [of |-> project.segments[bIdx], fitted |-> None])
                  /\ IF bIdx < BrowserN
                     THEN /\ bIdx' = bIdx + 1
                          /\ processingState' =
                                updateProgress(processingState,
                                    [stage |-> "extracting",
                                     currentSegment |-> bIdx + 1,
                                     progress |-> LoopProgress(bIdx, BrowserN)])
                          /\ bpc' = "extractClip"
                     ELSE /\ bIdx' = 1
                          /\ processingState' =
                                updateProgress(processingState,
                                    [stage |-> "detecting", currentSegment |-> 1,
                                     progress |-> LoopProgress(0, BrowserN)])
                          /\ bpc' = "getVideoDimensions"
                  /\ UNCHANGED processingRef
             ELSE /\ \E e \in ThrownBy("extractClip") : BrowserFail(e)
                  /\ UNCHANGED <<bIdx, extractedClips>>
    /\ UNCHANGED <<project, bTtsResults, frames, croppedClip, processedClips,
                   musicBlob>>
    /\ UNCHANGED <<serverVars, sideVars>>


\* An awaited call of the browser run at position `at` that touches no model
\* state but may throw.
BrowserCall(at, next) ==
    /\ bpc = at
    /\ \/ /\ bpc' = next
          /\ UNCHANGED <<processingState, processingRef>>
       \/ \E e \in ThrownBy(at) : BrowserFail(e)

\* await getVideoDimensions(clip)
BGetVideoDimensions ==
    /\ BrowserCall("getVideoDimensions", "extractFrames")
    /\ UNCHANGED <<project, bIdx, bTtsResults, extractedClips, frames,
                   croppedClip, processedClips, musicBlob, browserFs>>
    /\ UNCHANGED <<serverVars, sideVars>>

\* await extractFrames(clip, 0.5)
BExtractFrames ==
    /\ bpc = "extractFrames"
    /\ \E outcome \in StepOutcomes, m \in 0..MaxFrames :
          /\ outcome \in {"writeFails", "execFails"} => m = 0
          /\ outcome = "execBreaks" => m > 0
          /\ browserFs' = ExtractFramesFs(browserFs, m, outcome)
          /\ IF outcome = "ok"
             THEN /\ frames' = [k \in 1..m |-> k]
                  /\ bpc' = "analyzeFramesForFaces"
                  /\ UNCHANGED <<processingState, processingRef>>
             ELSE /\ \E e \in ThrownBy("extractFrames") : BrowserFail(e)
                  /\ UNCHANGED frames
    /\ UNCHANGED <<project, bIdx, bTtsResults, extractedClips, croppedClip,
                   processedClips, musicBlob>>
    /\ UNCHANGED <<serverVars, sideVars>>

\* await analyzeFramesForFaces(frames): initFaceDetector may throw.
BAnalyzeFramesForFaces ==
    /\ BrowserCall("analyzeFramesForFaces", "smartCrop")
    /\ UNCHANGED <<project, bIdx, bTtsResults, extractedClips, frames,
                   croppedClip, processedClips, musicBlob, browserFs>>
    /\ UNCHANGED <<serverVars, sideVars>>

\* await smartCrop(clip, faceCenters, width, height): cropVideo on the clip.
BSmartCrop ==
    /\ bpc = "smartCrop"
    /\ \E outcome \in StepOutcomes :
          /\ browserFs' = BrowserStepFs(browserFs, File("input.mp4", 0),
                                        File("cropped.mp4", 0), outcome)
          /\ IF outcome = "ok"
             THEN /\ croppedClip' = Some(extractedClips[bIdx])
                  /\ bpc' = "getVideoDuration"
                  /\ UNCHANGED <<processingState, processingRef>>
             ELSE /\ \E e \in ThrownBy("smartCrop") : BrowserFail(e)
                  /\ UNCHANGED croppedClip
    /\ UNCHANGED <<project, bIdx, bTtsResults, extractedClips, frames,
                   processedClips, musicBlob>>
    /\ UNCHANGED <<serverVars, sideVars>>

\* await getVideoDuration(croppedClip)
BGetVideoDuration ==
    /\ BrowserCall("getVideoDuration", "adjustDuration")
    /\ UNCHANGED <<project, bIdx, bTtsResults, extractedClips, frames,
                   croppedClip, processedClips, musicBlob, browserFs>>
    /\ UNCHANGED <<serverVars, sideVars>>

\* The index of the voiceover whose duration the clip at index k of
\* extractedClips is matched to: ttsResults[i].duration.
BrowserTtsIndex(k) == k

\* await adjustDuration(croppedClip, audioDuration, clipDuration) and
\* processedClips.push(adjustedClip); after the last clip the run enters the
\* stitching stage.
BAdjustDuration ==
    /\ bpc = "adjustDuration"
    /\ \E outcome \in StepOutcomes :
          /\ browserFs' = BrowserStepFs(browserFs, File("input.mp4", 0),
                                        File("adjusted.mp4", 0), outcome)
          /\ IF outcome = "ok"
             THEN /\ processedClips' =
                        Append(processedClips,
                               [croppedClip[1] EXCEPT !.fitted =
                                   Some(bTtsResults[BrowserTtsIndex(bIdx)])])
                  /\ croppedClip' = None
                  /\ IF bIdx < Len(extractedClips)
                     THEN /\ bIdx' = bIdx + 1
                          /\ processingState' =
                                updateProgress(processingState,
                                    [stage |-> "detecting",
                                     currentSegment |-> bIdx + 1,
                                     progress |-> LoopProgress(bIdx, BrowserN)])
                          /\ bpc' = "getVideoDimensions"
                     ELSE /\ bIdx' = bIdx
                          /\ processingState' =
                                updateProgress(processingState,
                                    [stage |-> "stitching",
                                     progress |-> LoopProgress(0, BrowserN)])
                          /\ bpc' = IF project.selectedMusic # None
                                    THEN "fetchMusic" ELSE "stitchSegments"
                  /\ UNCHANGED processingRef
             ELSE /\ \E e \in ThrownBy("adjustDuration") : BrowserFail(e)
                  /\ UNCHANGED <<bIdx, processedClips, croppedClip>>
    /\ UNCHANGED <<project, bTtsResults, extractedClips, frames, musicBlob>>
    /\ UNCHANGED <<serverVars, sideVars>>

\* How the fetch of the music file can go.
FetchOutcomes == {"ok", "notOk", "rejects"}

\* The musicBlob after the fetch: the try/catch around it swallows a
\* rejection, and a response that is not ok leaves musicBlob null.
MusicBlobAfter(music, outcome) == IF outcome = "ok" THEN music ELSE None

\* try { const response = await fetch(project.selectedMusic.filePath); ... }
BFetchMusic ==
    /\ bpc = "fetchMusic"
    /\ \E outcome \in FetchOutcomes :
          musicBlob' = MusicBlobAfter(project.selectedMusic, outcome)
    /\ bpc' = "stitchSegments"
    /\ UNCHANGED <<project, processingState, processingRef, bIdx, bTtsResults,
                   extractedClips, frames, croppedClip, processedClips,
                   browserFs>>
    /\ UNCHANGED <<serverVars, sideVars>>

\* const stitchSegmentData = processedClips.map((video, i) => ({video,
\*     audio: ttsResults[i].audio, duration: ttsResults[i].duration}))
StitchSegmentData(clips, tts) ==
    [k \in 1..Len(clips) |-> [video |-> clips[k], audio |-> tts[k]]]

\* stitchSegments of the browser: segment_i.mp4 listed in concat.txt in the
\* order of the array, the audio files concatenated in the same order.
BrowserStitchOutput(segments, music) ==
    [parts |-> [k \in 1..Len(segments) |-> segments[k]], music |-> music]

\* await stitchSegments(stitchSegmentData, musicBlob, project.musicVolume),
\* setOutputVideo and the last updateProgress.  The finally of
\* stitchSegments deletes every file it wrote.
BStitchSegments ==
    /\ bpc = "stitchSegments"
    /\ \/ /\ project' =
                [project EXCEPT !.outputVideo =
                    Some(BrowserStitchOutput(
                             StitchSegmentData(processedClips, bTtsResults),
                             musicBlob))]
          /\ processingState' =
                updateProgress(processingState,
                    [stage |-> "complete",
                     progress |-> Percent(100, BrowserN)])
          /\ processingRef' = FALSE
          /\ bpc' = "done"
       \/ /\ \E e \in ThrownBy("stitchSegments") : BrowserFail(e)
          /\ UNCHANGED project
    /\ UNCHANGED <<bIdx, bTtsResults, extractedClips, frames, croppedClip,
                   processedClips, musicBlob, browserFs>>
    /\ UNCHANGED <<serverVars, sideVars>>

NextBrowser ==
    \/ BStart
    \/ BGetFFmpeg
    \/ BSynthesizeText
    \/ BExtractClip
    \/ BGetVideoDimensions
    \/ BExtractFrames
    \/ BAnalyzeFramesForFaces
    \/ BSmartCrop
    \/ BGetVideoDuration
    \/ BAdjustDuration
    \/ BFetchMusic
    \/ BStitchSegments

\* ------------------------------------------------------------- the model

InertServer ==
    /\ body = [videoUrl |-> None, segments |-> None, voiceId |-> None,
               musicUrl |-> None, musicVolume |-> None,
               includeCaptions |-> None]
    /\ pc = "noRequest"

ServerStart ==
    /\ response = None
    /\ memoryStore = <<>>
    /\ segIdx = 1
    /\ ttsResults = <<>>
    /\ clipData = None
    /\ processedSegments = <<>>
    /\ musicData = None
    /\ finalVideo = None
    /\ uploaded = None
    /\ caught = Undefined
    /\ fs = {}
    /\ shown = [s \in Stages |-> -1]
    /\ terminalWrites = 0

InertBrowser ==
    /\ project = [videoFile |-> FALSE, selectedVoice |-> FALSE,
                  segments |-> <<>>, includeCaptions |-> FALSE,
                  selectedMusic |-> None, captions |-> None,
                  outputVideo |-> None]
    /\ bpc = "unmounted"

\* The projects a ProcessStep is mounted with.
Projects ==
    [videoFile : BOOLEAN, selectedVoice : BOOLEAN, segments : SegmentLists,
     includeCaptions : BOOLEAN, selectedMusic : {None, Some("music.mp3")},
     captions : {None}, outputVideo : {None}]

BrowserStart ==
    /\ processingState = [stage |-> "loading", currentSegment |-> 0,
                          totalSegments |-> Len(project.segments),
                          progress |-> 0, error |-> None]
    /\ processingRef = FALSE
    /\ bIdx = 1
    /\ bTtsResults = <<>>
    /\ extractedClips = <<>>
    /\ frames = <<>>
    /\ croppedClip = None
    /\ processedClips = <<>>
    /\ musicBlob = None
    /\ browserFs = {}

InertEngines ==
    /\ loader = [kind |-> "none"]
    /\ callers = <<>>

InertPoller == poller = [mode |-> "off"]

InertCalc == calc = [fn |-> "none"]

InertSide == InertEngines /\ InertPoller /\ InertCalc

InitServer ==
    /\ body \in Bodies
    /\ pc = "request"
    /\ ServerStart
    /\ InertBrowser
    /\ BrowserStart
    /\ InertSide

InitBrowser ==
    /\ project \in Projects
    /\ bpc = "mounted"
    /\ BrowserStart
    /\ InertServer
    /\ ServerStart
    /\ InertSide

Init == InitServer \/ InitBrowser

NextServer ==
    \/ POST
    \/ WriteLoading0
    \/ GetFFmpeg
    \/ WriteLoading100
    \/ WriteExtracting0
    \/ DownloadVideo
    \/ WriteExtracting20
    \/ WriteTts0
    \/ WriteTtsProgress
    \/ GenerateTTS
    \/ WriteDetecting0
    \/ WriteDetectingProgress
    \/ ExtractClip
    \/ WriteCropping70
    \/ ApplyCrop
    \/ WriteCropping90
    \/ AdjustDuration
    \/ WriteStitching0
    \/ DownloadMusic
    \/ WriteStitching20
    \/ StitchSegments
    \/ WriteStitching80
    \/ Upload
    \/ CompleteJob
    \/ FailJob

Next == NextServer \/ NextBrowser

Spec == Init /\ [][Next]_vars


\* ------------------------------------------- engine initialisation
\* The three lazily loaded engines: the browser FFmpeg client (getFFmpeg /
\* initFFmpeg), the face detector (initFaceDetector / loadFaceDetector) and
\* the server's FFmpeg (getFFmpeg of the processor).  Each keeps its state
\* in module variables; JavaScript runs a function without interruption up
\* to its first await, so a call of the get function is one step and the end
\* of the load is another.

\* Callers of one engine's get function before and while it loads.
MaxCallers == 3

EngineKinds == {"browserFFmpeg", "faceDetector", "serverFFmpeg"}

\* throw new Error('FFmpeg is already being loaded') and its twin
AlreadyLoading(kind) ==
    IF kind = "faceDetector" THEN "Face detector is already being loaded"
    ELSE "FFmpeg is already being loaded"

\* What ffmpeg.load() / FaceDetector.createFromOptions() rejects with.
LoadFailed == "load failed"

\* The module variables of an engine before the first call: the instance
\* (0 is null, k > 0 the k-th object created), its `loaded` flag, isLoading,
\* loadPromise (0 is null, p > 0 the p-th promise) and the promises made.
NewLoader(kind) ==
    [kind |-> kind, instance |-> 0, loaded |-> FALSE, isLoading |-> FALSE,
     loadPromise |-> 0, promises |-> <<>>, loads |-> 0]

\* if (ffmpeg && ffmpeg.loaded) / if (faceDetector) / if (ffmpegInstance?.loaded)
Ready(l) ==
    IF l.kind = "faceDetector" THEN l.instance # 0
    ELSE l.instance # 0 /\ l.loaded

\* As LoadPromise, without the test of loadPromise: every call that finds no
\* ready instance starts a load.
LoadPromiseIgnored(l) == 0

\* if (loadPromise) return loadPromise: the promise a call returns when the
\* instance is not ready, 0 when there is none.
LoadPromise(l) == l.loadPromise

\* loadPromise = initFFmpeg() / loadFaceDetector() / (async () => ...)(): the
\* callee runs up to its first await and its promise is stored.
StartLoad(l) ==
    LET p == Len(l.promises) + 1
    IN  IF l.kind # "serverFFmpeg" /\ l.isLoading
        THEN [l EXCEPT !.promises = Append(@, [state |-> "rejected", value |-> 0,
                                               error |-> AlreadyLoading(l.kind)]),
                       !.loadPromise = p]
        ELSE [l EXCEPT !.isLoading = (l.kind # "serverFFmpeg"),
                       !.instance = IF l.kind = "browserFFmpeg"
                                    THEN l.loads + 1 ELSE @,
                       !.loaded = IF l.kind = "browserFFmpeg" THEN FALSE ELSE @,
                       !.loads = @ + 1,
                       !.promises = Append(@, [state |-> "pending",
                                               value |-> l.loads + 1,
                                               error |-> ""]),
                       !.loadPromise = p]

\* The load behind promise p ends.  The browser client returns the module
\* variable `ffmpeg`; the others return the object they created.  The
\* finally blocks of the browser client and of the face detector clear
\* isLoading and loadPromise; the server keeps its promise.
SettleLoad(l, p, ok) ==
    LET made == l.promises[p].value
        cleared == [l EXCEPT !.isLoading = FALSE, !.loadPromise = 0]
    IN  CASE l.kind = "browserFFmpeg" ->
               IF ok
               THEN [cleared EXCEPT !.loaded = TRUE,
                        !.promises[p] = [state |-> "fulfilled",
                                         value |-> l.instance, error |-> ""]]
               ELSE [cleared EXCEPT !.instance = 0, !.loaded = FALSE,
                        !.promises[p] = [state |-> "rejected", value |-> 0,
                                         error |-> LoadFailed]]
          [] l.kind = "faceDetector" ->
               IF ok
               THEN [cleared EXCEPT !.instance = made,
                        !.promises[p] = [state |-> "fulfilled",
                                         value |-> made, error |-> ""]]
               ELSE [cleared EXCEPT
                        !.promises[p] = [state |-> "rejected", value |-> 0,
                                         error |-> LoadFailed]]
          [] l.kind = "serverFFmpeg" ->
               IF ok
               THEN [l EXCEPT !.instance = made, !.loaded = TRUE,
                        !.promises[p] = [state |-> "fulfilled",
                                         value |-> made, error |-> ""]]
               ELSE [l EXCEPT
                        !.promises[p] = [state |-> "rejected", value |-> 0,
                                         error |-> LoadFailed]]

Pending(l) == {p \in DOMAIN l.promises : l.promises[p].state = "pending"}

IdleCaller == [state |-> "idle", awaits |-> 0, value |-> 0, error |-> ""]

\* A caller invokes getFFmpeg() / initFaceDetector().
CallGet(c) ==
    /\ loader.kind # "none"
    /\ callers[c].state = "idle"
    /\ IF Ready(loader)
       THEN /\ callers' = [callers EXCEPT ![c].state = "returned",
                                          ![c].value = loader.instance]
            /\ UNCHANGED loader
       ELSE IF LoadPromise(loader) # 0
       THEN /\ callers' = [callers EXCEPT ![c].state = "waiting",
                                          ![c].awaits = LoadPromise(loader)]
            /\ UNCHANGED loader
       ELSE /\ loader' = StartLoad(loader)
            /\ callers' = [callers EXCEPT ![c].state = "waiting",
                                          ![c].awaits = loader'.loadPromise]
    /\ UNCHANGED <<serverVars, browserVars, pollVars, calcVars>>

\* await ffmpeg.load(...) / createFromOptions(...) returns.
LoadResolves ==
    /\ loader.kind # "none"
    /\ \E p \in Pending(loader) : loader' = SettleLoad(loader, p, TRUE)
    /\ UNCHANGED <<callers, serverVars, browserVars, pollVars, calcVars>>

\* await ffmpeg.load(...) / createFromOptions(...) throws.
LoadRejects ==
    /\ loader.kind # "none"
    /\ \E p \in Pending(loader) : loader' = SettleLoad(loader, p, FALSE)
    /\ UNCHANGED <<callers, serverVars, browserVars, pollVars, calcVars>>

\* The caller's await of the promise it was given ends.
AwaitEnds(c) ==
    /\ loader.kind # "none"
    /\ callers[c].state = "waiting"
    /\ LET promise == loader.promises[callers[c].awaits]
       IN  /\ promise.state # "pending"
           /\ callers' = [callers EXCEPT
                 ![c].state = IF promise.state = "fulfilled"
                              THEN "returned" ELSE "threw",
                 ![c].value = promise.value,
                 ![c].error = promise.error]
    /\ UNCHANGED <<loader, serverVars, browserVars, pollVars, calcVars>>

InitEngines ==
    /\ loader \in {NewLoader(kind) : kind \in EngineKinds}
    /\ callers = [c \in 1..MaxCallers |-> IdleCaller]
    /\ InertServer /\ ServerStart /\ InertBrowser /\ BrowserStart
    /\ InertPoller /\ InertCalc

NextEngines ==
    \/ \E c \in 1..MaxCallers : CallGet(c)
    \/ LoadResolves
    \/ LoadRejects
    \/ \E c \in 1..MaxCallers : AwaitEnds(c)

SpecEngines == InitEngines /\ [][NextEngines]_vars


\* ------------------------------------------------- the polling client
\* ProcessStep of the server mode (src/components/wizard/ProcessStep.tsx):
\* after POST /api/process answered it polls GET /api/status/[jobId] from a
\* setInterval timer and once at once.  The server side of these behaviours
\* is processVideo as modelled above.

\* const POLL_INTERVAL = 2000
POLL_INTERVAL == 2000

\* Poll requests one behaviour issues, the immediate one included.
MaxPolls == 2

\* requestBody of startProcessing, for a project of one segment with music,
\* with and without captions.
PollBodies ==
    [videoUrl : {Some("video.mp4")},
     segments : {Some(Ascending(1))},
     voiceId : {Some("voice")},
     musicUrl : {Some("music.wav")},
     musicVolume : {Some(0)},
     includeCaptions : {Some(FALSE), Some(TRUE)}]

\* A poll request on its way: the time it was issued, how far it got and
\* the reply once there is one.
NewRequest(at) == [at |-> at, state |-> "sent", reply |-> None]

\* GET /api/status/[jobId]: the body of the answer, ok = FALSE for an answer
\* that is not 2xx (404 without the job, 500) or a fetch that rejects.
StatusReply(store, jobId, reachable) ==
    IF ~reachable \/ getJob(store, jobId) = None
    THEN [ok |-> FALSE, status |-> "", stage |-> ""]
    ELSE [ok |-> TRUE, status |-> store[jobId].status,
          stage |-> store[jobId].stage]

\* As IntervalAfter, never clearing the timer.
IntervalKept(ref, status) == ref

\* if (status.status === 'complete') { clearInterval(pollingRef.current) ... }
\* else if (status.status === 'error') { clearInterval(...) ... }: whether
\* the timer is still set after a reply with `status` was processed.
IntervalAfter(ref, status) ==
    IF status \in {"complete", "error"} THEN FALSE ELSE ref

\* const jobId = await startProcessing(videoUrl) returns or throws; on
\* return pollingRef.current = setInterval(pollForCompletion, POLL_INTERVAL)
\* and pollForCompletion() is called at once.
PollStart ==
    /\ poller.mode = "starting"
    /\ response # None
    /\ IF response = Some(200)
       THEN poller' = [poller EXCEPT !.mode = "polling", !.pollingRef = TRUE,
                          !.requests = <<NewRequest(poller.clock)>>]
       ELSE poller' = [poller EXCEPT !.mode = "failed", !.view = "error"]
    /\ UNCHANGED <<serverVars, browserVars, engineVars, calcVars>>

\* The timer fires POLL_INTERVAL after it was set or fired last and calls
\* pollForCompletion, which sends the request before its first await.
IntervalTick ==
    /\ poller.mode = "polling"
    /\ poller.pollingRef
    /\ Len(poller.requests) < MaxPolls
    /\ poller' = [poller EXCEPT !.clock = @ + POLL_INTERVAL,
                     !.requests = Append(@, NewRequest(poller.clock + POLL_INTERVAL))]
    /\ UNCHANGED <<serverVars, browserVars, engineVars, calcVars>>

\* The status route answers request r, or the request fails.
StatusGET(r) ==
    /\ poller.mode = "polling"
    /\ poller.requests[r].state = "sent"
    /\ \E reachable \in BOOLEAN :
          poller' = [poller EXCEPT !.requests[r].state = "replied",
                        !.requests[r].reply =
                            Some(StatusReply(memoryStore, JobId, reachable))]
    /\ UNCHANGED <<serverVars, browserVars, engineVars, calcVars>>

\* pollForCompletion continues after `await pollJobStatus(jobId)`: a failed
\* poll lands in its catch, which only logs; a reply updates the view and, if
\* terminal, clears the timer.
PollReturns(r) ==
    /\ poller.mode = "polling"
    /\ poller.requests[r].state = "replied"
    /\ LET reply == poller.requests[r].reply[1]
       IN  IF ~reply.ok
           THEN poller' = [poller EXCEPT !.requests[r].state = "done"]
           ELSE poller' = [poller EXCEPT
                    !.requests[r].state = "done",
                    !.view = IF reply.status = "complete" THEN "complete"
                             ELSE IF reply.status = "error" THEN "error"
                             ELSE reply.stage,
                    !.pollingRef = IntervalAfter(poller.pollingRef, reply.status),
                    !.terminalProcessed =
                        @ \/ reply.status \in {"complete", "error"}]
    /\ UNCHANGED <<serverVars, browserVars, engineVars, calcVars>>

InitPoll ==
    /\ body \in PollBodies
    /\ pc = "request"
    /\ ServerStart
    /\ poller = [mode |-> "starting", pollingRef |-> FALSE, clock |-> 0,
                 requests |-> <<>>, terminalProcessed |-> FALSE,
                 view |-> "queued"]
    /\ InertBrowser /\ BrowserStart /\ InertEngines /\ InertCalc

NextPoll ==
    \/ NextServer
    \/ PollStart
    \/ IntervalTick
    \/ \E r \in 1..MaxPolls : r \in DOMAIN poller.requests /\ StatusGET(r)
    \/ \E r \in 1..MaxPolls : r \in DOMAIN poller.requests /\ PollReturns(r)

SpecPoll == InitPoll /\ [][NextPoll]_vars


\* ---------------------------------------------------- pure functions
\* The functions below take no part in the interleaving of the pipelines:
\* a behaviour draws the arguments of one of them (calc.fn names it) and one
\* step applies it.

\* ---- clampedSpeed of adjustDuration (src/lib/ffmpeg/timestretch.ts)
\* A JavaScript number that is the quotient of two integers: NaN, Infinity
\* or the fraction n/d with d > 0.  The comparisons of Math.min and
\* Math.max with 0.5 and 2.0 come out as for the exact quotient, since
\* the double nearest to a quotient lies on the same side of 0.5 and of 2.0.

\* Longest duration of a clip or a voiceover, in tenths of a second.
MaxDuration == 5

\* Math.round(n / d) for d > 0: the nearest integer, a half rounds up.
Round(n, d) == (2 * n + d) \div (2 * d)

Min(a, b) == IF a < b THEN a ELSE b
Max(a, b) == IF a > b THEN a ELSE b

Fraction(n, d) == [kind |-> "finite", n |-> n, d |-> d]
NaN == [kind |-> "NaN", n |-> 0, d |-> 1]
Infinity == [kind |-> "Infinity", n |-> 1, d |-> 1]

\* a / b for integers a, b >= 0
Quotient(a, b) ==
    IF b # 0 THEN Fraction(a, b)
    ELSE IF a = 0 THEN NaN ELSE Infinity

\* x < y for finite x, y
Less(x, y) == x.n * y.d < y.n * x.d

\* Math.min(x, y) and Math.max(x, y): NaN if an argument is NaN.
MathMin(x, y) ==
    IF x.kind = "NaN" \/ y.kind = "NaN" THEN NaN
    ELSE IF x.kind = "Infinity" THEN y
    ELSE IF y.kind = "Infinity" THEN x
    ELSE IF Less(y, x) THEN y ELSE x

MathMax(x, y) ==
    IF x.kind = "NaN" \/ y.kind = "NaN" THEN NaN
    ELSE IF x.kind = "Infinity" \/ y.kind = "Infinity" THEN Infinity
    ELSE IF Less(x, y) THEN y ELSE x

\* const speedFactor = currentDuration / targetDuration
speedFactor(targetDuration, currentDuration) ==
    Quotient(currentDuration, targetDuration)

\* const clampedSpeed = Math.max(0.5, Math.min(2.0, speedFactor))
clampedSpeed(targetDuration, currentDuration) ==
    MathMax(Fraction(1, 2),
            MathMin(Fraction(2, 1), speedFactor(targetDuration, currentDuration)))

\* ptsMultiplier.toFixed(4) for ptsMultiplier = 1 / clampedSpeed, in
\* ten-thousandths
ptsMultiplier(speed) == Round(10000 * speed.d, speed.n)

\* Duration of the clip adjustDuration of timestretch.ts returns, in tenths:
\* setpts=<ptsMultiplier>*PTS multiplies every timestamp of the clip.
adjustedDuration(targetDuration, currentDuration) ==
    LET speed == clampedSpeed(targetDuration, currentDuration)
    IN  IF speed.kind = "NaN" THEN NaN
        ELSE Fraction(currentDuration * ptsMultiplier(speed), 10000)

\* Duration of the clip adjustDuration of the processor returns, in tenths:
\* setpts=PTS*1.0 keeps the timestamps and -t targetDuration stops the
\* output at the target.
adjustedDurationServer(targetDuration, currentDuration) ==
    Fraction(Min(currentDuration, targetDuration), 1)

InitAdjustDuration ==
    \E target \in 0..MaxDuration, current \in 0..MaxDuration :
        calc = [fn |-> "adjustDuration", targetDuration |-> target,
                currentDuration |-> current, done |-> FALSE,
                clampedSpeed |-> NaN, duration |-> NaN, serverDuration |-> NaN]

ApplyAdjustDuration ==
    /\ calc.fn = "adjustDuration"
    /\ ~calc.done
    /\ calc' = [calc EXCEPT !.done = TRUE,
                   !.clampedSpeed = clampedSpeed(calc.targetDuration,
                                                 calc.currentDuration),
                   !.duration = adjustedDuration(calc.targetDuration,
                                                 calc.currentDuration),
                   !.serverDuration = adjustedDurationServer(calc.targetDuration,
                                                             calc.currentDuration)]
    /\ UNCHANGED <<serverVars, browserVars, engineVars, pollVars>>

\* ---- crop regions: calculateOptimalCrop (lib/mediapipe) and
\* calculateCropRegion / smartCrop (src/lib/ffmpeg/crop.ts)
\* Frame sizes and face centres are integers; the quotients the code rounds
\* have denominators 2, 3, 9, 16 or the number of centres and are rounded
\* here exactly.

\* Largest frame width and height.
MaxDim == 6

\* Most sampled frames of a clip.
MaxCenters == 2

\* As Clamp, without clamping.
Unclamped(v, lo, hi) == v

\* Math.max(lo, Math.min(v, hi))
Clamp(v, lo, hi) == Max(lo, Min(v, hi))

\* cropWidth and cropHeight, the same in both functions: videoAspect >
\* TARGET_ASPECT is videoWidth / videoHeight > 9 / 16.
CropSize(videoWidth, videoHeight) ==
    IF 16 * videoWidth > 9 * videoHeight
    THEN [width |-> Round(9 * videoHeight, 16), height |-> videoHeight]
    ELSE [width |-> videoWidth, height |-> Round(16 * videoWidth, 9)]

\* faceCenters.filter((c) => c !== null)
validCenters(faceCenters) == SelectSeq(faceCenters, LAMBDA c : c # None)

\* Math.pow(1.2, i / length) in hundredths, rounded down: the greatest m
\* with (m / 100)^length <= 1.2^i.  The weight lies between this and one
\* hundredth more; for i = 0 it is 1.
WeightFloor(i, length) ==
    CHOOSE m \in 100..120 :
        /\ m^length <= 100^(length - i) * 120^i
        /\ (m + 1)^length > 100^(length - i) * 120^i

\* The lists of weights, in hundredths, that enclose the weights of
\* `length` centres: each the weight rounded down or that plus one.
WeightEnclosures(length) ==
    {[k \in 1..length |->
         WeightFloor(k - 1, length) + (IF k = 1 THEN 0 ELSE up[k])] :
     up \in [1..length -> {0, 1}]}

\* validCenters.reduce((sum, c, i) => sum + c[axis] * weights[i], 0) and
\* weights.reduce((sum, w) => sum + w, 0)
RECURSIVE WeightedSum(_, _, _)
WeightedSum(centers, weights, axis) ==
    IF centers = <<>> THEN 0
    ELSE WeightedSum(SubSeq(centers, 1, Len(centers) - 1),
                     SubSeq(weights, 1, Len(weights) - 1), axis)
             + centers[Len(centers)][1][axis] * weights[Len(weights)]

RECURSIVE TotalOf(_)
TotalOf(weights) ==
    IF weights = <<>> THEN 0
    ELSE TotalOf(SubSeq(weights, 1, Len(weights) - 1)) + weights[Len(weights)]

Least(S) == CHOOSE v \in S : \A w \in S : v <= w
Greatest(S) == CHOOSE v \in S : \A w \in S : v >= w

\* Math.round(targetCenter - cropSize / part) for the weighted mean of the
\* centres: the offsets it can be.  The weights are irrational; the mean is
\* monotone in each weight, so it lies between its values at the ends of
\* the enclosures, and Math.round is monotone.
WeightedOffsets(valid, axis, cropSize, part) ==
    LET ends == {Round(part * WeightedSum(valid, ws, axis) - cropSize * TotalOf(ws),
                       part * TotalOf(ws)) : ws \in WeightEnclosures(Len(valid))}
    IN  Least(ends) .. Greatest(ends)

\* calculateOptimalCrop: the regions it can return.  Without a valid centre
\* the target is (videoWidth / 2, videoHeight / 3); with valid centres it
\* is their mean under the weights 1.2^(i / length).
calculateOptimalCrop(faceCenters, videoWidth, videoHeight) ==
    LET valid == validCenters(faceCenters)
        size == CropSize(videoWidth, videoHeight)
        xs == IF valid = <<>>
              THEN {Round(videoWidth - size.width, 2)}
              ELSE WeightedOffsets(valid, "x", size.width, 2)
        ys == IF valid = <<>>
              THEN {Round(videoHeight - size.height, 3)}
              ELSE WeightedOffsets(valid, "y", size.height, 3)
    IN  {[x |-> Clamp(x, 0, videoWidth - size.width),
          y |-> Clamp(y, 0, videoHeight - size.height),
          width |-> size.width, height |-> size.height] : x \in xs, y \in ys}

RECURSIVE Sum(_, _)
Sum(centers, axis) ==
    IF centers = <<>> THEN 0
    ELSE centers[1][1][axis] + Sum(Tail(centers), axis)

\* smartCrop: averageCenter, undefined without a valid centre; the mean is
\* kept as the sums and the count.
averageCenter(faceCenters) ==
    LET valid == validCenters(faceCenters)
    IN  IF valid = <<>> THEN None
        ELSE Some([sumX |-> Sum(valid, "x"), sumY |-> Sum(valid, "y"),
                   count |-> Len(valid)])

\* calculateCropRegion(videoWidth, videoHeight, faceCenter)
calculateCropRegion(videoWidth, videoHeight, faceCenter) ==
    LET size == CropSize(videoWidth, videoHeight)
    IN  IF faceCenter = None
        THEN [x |-> Round(videoWidth - size.width, 2),
              y |-> Round(videoHeight - size.height, 2),
              width |-> size.width, height |-> size.height]
        ELSE LET c == faceCenter[1]
             IN  [x |-> Clamp(Round(2 * c.sumX - size.width * c.count, 2 * c.count),
                              0, videoWidth - size.width),
                  y |-> Clamp(Round(3 * c.sumY - size.height * c.count, 3 * c.count),
                              0, videoHeight - size.height),
                  width |-> size.width, height |-> size.height]

\* The region smartCrop hands to cropVideo: the one applied to the clip.
smartCrop(faceCenters, videoWidth, videoHeight) ==
    calculateCropRegion(videoWidth, videoHeight, averageCenter(faceCenters))

\* Coordinates of face centres: left of or above the frame, inside it (two
\* values of x for frames of 4 or more), right of or below it.
CenterCoordinates == {-1, 2, MaxDim + 1}
FaceCenters ==
    {None} \cup {Some([x |-> x, y |-> y]) : x \in CenterCoordinates \cup {4},
                                             y \in CenterCoordinates}
RECURSIVE ListsOver(_, _)
ListsOver(S, n) ==
    IF n = 0 THEN {<<>>}
    ELSE LET shorter == ListsOver(S, n - 1)
         IN  shorter \cup {Append(l, v) : l \in {m \in shorter : Len(m) = n - 1},
                                           v \in S}

NoRegion == [x |-> 0, y |-> 0, width |-> 0, height |-> 0]

InitCrop ==
    \E w \in 1..MaxDim, h \in 1..MaxDim, centers \in ListsOver(FaceCenters, MaxCenters) :
        calc = [fn |-> "crop", videoWidth |-> w, videoHeight |-> h,
                faceCenters |-> centers, done |-> FALSE,
                cropRegion |-> NoRegion, applied |-> NoRegion]

\* ProcessStep: const cropRegion = calculateOptimalCrop(faceCenters, ...);
\* const croppedClip = await smartCrop(clip, faceCenters, ...)
CalculateCrop ==
    /\ calc.fn = "crop"
    /\ ~calc.done
    /\ \E region \in calculateOptimalCrop(calc.faceCenters, calc.videoWidth,
                                          calc.videoHeight) :
          calc' = [calc EXCEPT !.done = TRUE, !.cropRegion = region,
                      !.applied = smartCrop(calc.faceCenters, calc.videoWidth,
                                            calc.videoHeight)]
    /\ UNCHANGED <<serverVars, browserVars, engineVars, pollVars>>

\* ---- captions: estimateWordTimings and generateCaptions
\* (src/lib/utils/captions.ts) and generateCaptions of the processor
\* Times are JavaScript numbers: binary floating point, every sum, product
\* and quotient rounded to the nearest number of the format, ties to even.
\* The code runs with a mantissa of 53 bits, more than the 32-bit integers
\* of TLC hold; the model keeps the arithmetic and narrows the mantissa
\* to MantissaBits bits.  A number is m * 2^e with m = 0 or
\* 2^(MantissaBits-1) <= m < 2^MantissaBits, so that equal numbers are
\* equal records.

\* Width of the mantissa of a number.
MantissaBits == 4

\* Most segments of a caption list.
MaxCaptionSegments == 2

Zero == [m |-> 0, e |-> 0]

\* The number nearest to (num / den) * 2^e, for num >= 0 and den > 0.
RECURSIVE Normalize(_, _, _)
Normalize(num, den, e) ==
    IF num = 0 THEN Zero
    ELSE IF num < 2^(MantissaBits - 1) * den THEN Normalize(2 * num, den, e - 1)
    ELSE IF num >= 2^MantissaBits * den THEN Normalize(num, 2 * den, e + 1)
    ELSE LET q == num \div den
             r == num % den
             m == IF 2 * r > den \/ (2 * r = den /\ q % 2 = 1) THEN q + 1 ELSE q
         IN  IF m = 2^MantissaBits
             THEN [m |-> 2^(MantissaBits - 1), e |-> e + 1]
             ELSE [m |-> m, e |-> e]

\* x + y, x * y, x / y (y # 0) and x < y
FAdd(x, y) ==
    LET e == Min(x.e, y.e)
    IN  Normalize(x.m * 2^(x.e - e) + y.m * 2^(y.e - e), 1, e)
FMul(x, y) == Normalize(x.m * y.m, 1, x.e + y.e)
FDiv(x, y) == Normalize(x.m, y.m, x.e - y.e)
FLess(x, y) ==
    LET e == Min(x.e, y.e)
    IN  x.m * 2^(x.e - e) < y.m * 2^(y.e - e)
FLeq(x, y) == ~FLess(y, x)

\* The number k / 4 and the number of the integer k.
Quarter(k) == Normalize(k, 4, 0)
Whole(k) == Normalize(k, 1, 0)

\* A text is a sequence of runs: a run of whitespace (ends = " ") or a word
\* of `length` characters that ends with a full stop, a comma or neither.
Space == [length |-> 1, ends |-> " "]
Word(length, ends) == [length |-> length, ends |-> ends]

\* text.trim().split(/\s+/).filter(Boolean)
SplitWords(text) == SelectSeq(text, LAMBDA run : run.ends # " ")

\* weight of a word: its length, plus 3 after . ! ?, plus 1.5 after , ; :
WordWeight(word) ==
    IF word.ends = "." THEN FAdd(Whole(word.length), Whole(3))
    ELSE IF word.ends = "," THEN FAdd(Whole(word.length), Normalize(3, 2, 0))
    ELSE Whole(word.length)

RECURSIVE TotalWeight(_)
TotalWeight(words) ==
    IF words = <<>> THEN Zero
    ELSE FAdd(TotalWeight(SubSeq(words, 1, Len(words) - 1)),
              WordWeight(words[Len(words)]))

\* the loop of estimateWordTimings over words[k..]: currentTime += wordDuration
RECURSIVE WordTimings(_, _, _, _)
WordTimings(words, k, timePerWeight, currentTime) ==
    IF k > Len(words) THEN <<>>
    ELSE LET wordDuration == FMul(WordWeight(words[k]), timePerWeight)
             endTime == FAdd(currentTime, wordDuration)
         IN  <<[text |-> k, startTime |-> currentTime, endTime |-> endTime]>>
                 \o WordTimings(words, k + 1, timePerWeight, endTime)

\* estimateWordTimings(text, startTime, duration); `text` of a timing is the
\* position of the word in the text.
estimateWordTimings(text, startTime, duration) ==
    LET words == SplitWords(text)
    IN  IF Len(words) = 0 THEN <<>>
        ELSE LET timePerWeight == FDiv(duration, TotalWeight(words))
                 timings == WordTimings(words, 1, timePerWeight, startTime)
             IN  [timings EXCEPT ![Len(words)].endTime = FAdd(startTime, duration)]

\* generateCaptions of captions.ts for segments[i..]:
\* const duration = durations[i] || 3
RECURSIVE generateCaptions(_, _, _, _)
generateCaptions(segments, durations, i, cumulativeTime) ==
    IF i > Len(segments) THEN <<>>
    ELSE LET duration == IF durations[i] = Zero THEN Whole(3) ELSE durations[i]
         IN  <<[segmentId |-> segments[i].id,
                words |-> estimateWordTimings(segments[i].script,
                                              cumulativeTime, duration)]>>
                 \o generateCaptions(segments, durations, i + 1,
                                     FAdd(cumulativeTime, duration))

\* generateCaptions of the processor for segments[index..]: every word gets
\* duration / words.length
RECURSIVE generateCaptionsServer(_, _, _, _)
generateCaptionsServer(segments, durations, index, currentTime) ==
    IF index > Len(segments) THEN <<>>
    ELSE LET duration == durations[index]
             words == SplitWords(segments[index].script)
             captionWords ==
                 [wordIndex \in 1..Len(words) |->
                     LET wordDuration == FDiv(duration, Whole(Len(words)))
                     IN  [text |-> wordIndex,
                          startTime |-> FAdd(currentTime,
                                FMul(Whole(wordIndex - 1), wordDuration)),
                          endTime |-> FAdd(currentTime,
                                FMul(Whole(wordIndex), wordDuration))]]
         IN  <<[segmentId |-> segments[index].id, words |-> captionWords]>>
                 \o generateCaptionsServer(segments, durations, index + 1,
                                           FAdd(currentTime, duration))

\* Scripts: empty, blank, one word, two words inside whitespace, three words.
Scripts ==
    {<<>>, <<Space>>, <<Word(2, "")>>,
     <<Space, Word(3, ""), Space, Word(2, "."), Space>>,
     <<Word(1, ","), Space, Word(2, ""), Space, Word(1, ".")>>}

\* Durations in seconds: 0, 1, 1.5 and 3.25.
Durations == {Quarter(k) : k \in {0, 4, 6, 13}}

InitCaptions ==
    \E n \in 1..MaxCaptionSegments :
        \E scripts \in [1..n -> Scripts], durations \in [1..n -> Durations] :
            calc = [fn |-> "captions",
                    segments |-> [k \in 1..n |-> [id |-> k, script |-> scripts[k]]],
                    durations |-> durations, done |-> FALSE,
                    captions |-> <<>>, serverCaptions |-> <<>>]

GenerateCaptions ==
    /\ calc.fn = "captions"
    /\ ~calc.done
    /\ calc' = [calc EXCEPT !.done = TRUE,
                   !.captions = generateCaptions(calc.segments, calc.durations,
                                                 1, Zero),
                   !.serverCaptions = generateCaptionsServer(calc.segments,
                                          calc.durations, 1, Zero)]
    /\ UNCHANGED <<serverVars, browserVars, engineVars, pollVars>>

\* ---- mixAudioBuffers (src/lib/utils/audio.ts)
\* An AudioBuffer has one channel or more and one sample frame or more, and
\* its channel data are Float32Arrays.  A sample of the model is an integer
\* number of halves (FullScale is the sample 1.0) and a volume an integer
\* number of quarters; storing into channel data rounds to the nearest
\* sample of the grid, ties to even, as a store into a Float32Array rounds
\* to the nearest 32-bit float.

\* Most sample frames of a buffer.
MaxSamples == 3

\* The sample 1.0.
FullScale == 2

ChannelCounts == {1, 2}
PrimarySamples == {-3, 1}
SecondarySamples == {-2, 2}
Volumes == {1, 4}

AudioBuffers(samples, maxLength) ==
    UNION {{[numberOfChannels |-> c, length |-> n, data |-> d] :
               d \in [1..c -> [1..n -> samples]]} :
           c \in ChannelCounts, n \in 1..maxLength}

\* resultData[i] = x for x = num / den halves
StoreSample(num, den) ==
    LET q == num \div den
        r == num % den
    IN  IF 2 * r > den \/ (2 * r = den /\ q % 2 = 1) THEN q + 1 ELSE q

\* As SecondaryIndex, holding the last sample instead of looping.
SecondaryIndexHeld(i, length) == Min(i, length - 1)

\* const secondaryIndex = i % secondaryData.length
SecondaryIndex(i, length) == i % length

\* mixAudioBuffers(primary, secondary, secondaryVolume), the volume in quarters
mixAudioBuffers(primary, secondary, secondaryVolume) ==
    [numberOfChannels |-> primary.numberOfChannels,
     length |-> primary.length,
     data |->
        [c \in 1..primary.numberOfChannels |->
            LET channel == c - 1
                primaryData == primary.data[channel + 1]
                secondaryChannel == Min(channel, secondary.numberOfChannels - 1)
                secondaryData == secondary.data[secondaryChannel + 1]
            IN  [k \in 1..Len(primaryData) |->
                    LET i == k - 1
                        secondaryIndex == SecondaryIndex(i, Len(secondaryData))
                        stored == StoreSample(4 * primaryData[i + 1]
                                      + secondaryData[secondaryIndex + 1]
                                            * secondaryVolume, 4)
                    IN  Max(-FullScale, Min(FullScale, stored))]]]

NoBuffer == [numberOfChannels |-> 0, length |-> 0, data |-> <<>>]

InitMix ==
    \E primary \in AudioBuffers(PrimarySamples, MaxSamples),
       secondary \in AudioBuffers(SecondarySamples, MaxSamples),
       secondaryVolume \in Volumes :
        calc = [fn |-> "mixAudioBuffers", primary |-> primary,
                secondary |-> secondary, secondaryVolume |-> secondaryVolume,
                done |-> FALSE, result |-> NoBuffer]

MixAudioBuffers ==
    /\ calc.fn = "mixAudioBuffers"
    /\ ~calc.done
    /\ calc' = [calc EXCEPT !.done = TRUE,
                   !.result = mixAudioBuffers(calc.primary, calc.secondary,
                                              calc.secondaryVolume)]
    /\ UNCHANGED <<serverVars, browserVars, engineVars, pollVars>>

\* ---- the project store: setMusicVolume (src/store/projectStore.ts)
\* A volume is a JavaScript number: a fraction, NaN or Infinity.

\* Most setMusicVolume calls in a row.
MaxVolumeCalls == 2

\* musicVolume of the initial project
InitialMusicVolume == Fraction(15, 100)

\* Math.max(0, Math.min(1, volume))
setMusicVolume(state, volume) ==
    [state EXCEPT !.musicVolume =
        MathMax(Fraction(0, 1), MathMin(Fraction(1, 1), volume))]

VolumeArguments ==
    {Fraction(-1, 2), Fraction(0, 1), Fraction(1, 2), Fraction(1, 1),
     Fraction(3, 2), Infinity, NaN}

InitProjectStore ==
    calc = [fn |-> "projectStore",
            project |-> [musicVolume |-> InitialMusicVolume], calls |-> 0]

SetMusicVolume ==
    /\ calc.fn = "projectStore"
    /\ calc.calls < MaxVolumeCalls
    /\ \E volume \in VolumeArguments :
          calc' = [calc EXCEPT !.project = setMusicVolume(calc.project, volume),
                               !.calls = calc.calls + 1]
    /\ UNCHANGED <<serverVars, browserVars, engineVars, pollVars>>

\* ---- smoothCropRegions (lib/mediapipe)
\* Positions are integers; prev + (curr - prev) * (1 - 0.3) is
\* (3 * prev + 7 * curr) / 10, rounded exactly.  For positions that differ
\* by less than 45, as the ones below, the doubles of the code round to the
\* same integer.

\* Most crop regions of a list.
MaxRegions == 3

\* const smoothed = [cropRegions[0]]; for (i = 1; ...) smoothed.push(...)
\* for the first k regions, smoothingFactor = 0.3
RECURSIVE Smoothed(_, _)
Smoothed(cropRegions, k) ==
    IF k = 1 THEN <<cropRegions[1]>>
    ELSE LET smoothed == Smoothed(cropRegions, k - 1)
             prev == smoothed[k - 1]
             curr == cropRegions[k]
         IN  Append(smoothed,
                    [x |-> Round(10 * prev.x + (curr.x - prev.x) * (10 - 3), 10),
                     y |-> Round(10 * prev.y + (curr.y - prev.y) * (10 - 3), 10),
                     width |-> curr.width,
                     height |-> curr.height])

\* smoothCropRegions(cropRegions) with the default smoothingFactor
smoothCropRegions(cropRegions) ==
    IF Len(cropRegions) <= 1 THEN cropRegions
    ELSE Smoothed(cropRegions, Len(cropRegions))

CropRegions ==
    {[x |-> x, y |-> y, width |-> s[1], height |-> s[2]] :
        x \in {0, 5, 10}, y \in {0, 10}, s \in {<<9, 16>>, <<1, 2>>}}

InitSmooth ==
    \E n \in 0..MaxRegions : \E cropRegions \in [1..n -> CropRegions] :
        calc = [fn |-> "smoothCropRegions", cropRegions |-> cropRegions,
                done |-> FALSE, smoothed |-> <<>>]

SmoothCropRegions ==
    /\ calc.fn = "smoothCropRegions"
    /\ ~calc.done
    /\ calc' = [calc EXCEPT !.done = TRUE,
                   !.smoothed = smoothCropRegions(calc.cropRegions)]
    /\ UNCHANGED <<serverVars, browserVars, engineVars, pollVars>>

\* ---- analyzeFramesForFaces (lib/mediapipe)
\* A frame either makes detectFacesInFrame reject (the image does not load,
\* the detector throws) or yields a list of detections.  Confidences are in
\* tenths, the centre of a bounding box in halves of a pixel.

\* Most frames of one analysis.
MaxAnalyzed == 2

Throws == [throws |-> TRUE, detections |-> <<>>]
Yields(detections) == [throws |-> FALSE, detections |-> detections]

\* getFaceCenter(detection)
getFaceCenter(detection) ==
    [x |-> 2 * detection.boundingBox.x + detection.boundingBox.width,
     y |-> 2 * detection.boundingBox.y + detection.boundingBox.height]

\* detections.reduce((best, current) =>
\*     current.confidence > best.confidence ? current : best)
\* over the first n detections
RECURSIVE BestOf(_, _)
BestOf(detections, n) ==
    IF n = 1 THEN detections[1]
    ELSE LET best == BestOf(detections, n - 1)
             current == detections[n]
         IN  IF current.confidence > best.confidence THEN current ELSE best

\* As bestFace, taking the first detection.
firstFace(detections) == detections[1]

\* const bestFace = detections.reduce(...)
bestFace(detections) == BestOf(detections, Len(detections))

\* One pass of the loop body: what is pushed for a frame.
FrameResult(frame) ==
    IF frame.throws THEN None
    ELSE IF Len(frame.detections) > 0
         THEN Some(getFaceCenter(bestFace(frame.detections)))
    ELSE None

Detections ==
    {[timestamp |-> 0, boundingBox |-> b, confidence |-> c] :
        b \in {[x |-> 0, y |-> 0, width |-> 2, height |-> 2],
               [x |-> 1, y |-> 3, width |-> 1, height |-> 1]},
        c \in {5, 9}}

FrameOutcomes ==
    {Throws} \cup {Yields(d) : d \in ListsOver(Detections, 2)}

InitAnalyze ==
    \E frameList \in ListsOver(FrameOutcomes, MaxAnalyzed) :
        calc = [fn |-> "analyzeFramesForFaces", frames |-> frameList,
                at |-> "init", i |-> 0, results |-> <<>>]

\* await initFaceDetector(): outside the try of the loop, a rejection
\* leaves the function.
InitFaceDetector ==
    /\ calc.fn = "analyzeFramesForFaces"
    /\ calc.at = "init"
    /\ \E loaded \in BOOLEAN :
          calc' = [calc EXCEPT !.at = IF loaded THEN "loop" ELSE "rejected"]
    /\ UNCHANGED <<serverVars, browserVars, engineVars, pollVars>>

\* for (let i = 0; i < frames.length; i++) { try ... catch ... }
AnalyzeFrame ==
    /\ calc.fn = "analyzeFramesForFaces"
    /\ calc.at = "loop"
    /\ calc.i < Len(calc.frames)
    /\ calc' = [calc EXCEPT !.i = calc.i + 1,
                   !.results = Append(calc.results,
                                      FrameResult(calc.frames[calc.i + 1]))]
    /\ UNCHANGED <<serverVars, browserVars, engineVars, pollVars>>

\* return results
AnalyzeReturns ==
    /\ calc.fn = "analyzeFramesForFaces"
    /\ calc.at = "loop"
    /\ calc.i = Len(calc.frames)
    /\ calc' = [calc EXCEPT !.at = "returned"]
    /\ UNCHANGED <<serverVars, browserVars, engineVars, pollVars>>

\* ---- the job store called with ids it may not hold
\* (src/lib/server/job-store.ts)

\* Most store calls in a row.
MaxStoreCalls == 2

StoreIds == {"job-1", "job-2", "job-3"}
StoreCalls == {"updateJob", "updateJobProgress", "completeJob", "failJob"}

\* A job as POST creates it, under the id `id`.
JobWithId(id) ==
    [NewJob([videoUrl |-> Some("video.mp4"), segments |-> Some(Ascending(1)),
             voiceId |-> Some("voice"), musicUrl |-> None, musicVolume |-> None,
             includeCaptions |-> None]) EXCEPT !.id = id]

\* As RejectMissing, creating a record for the id instead of throwing.
CreateMissing(store, jobId) ==
    [store |-> createJob(store, JobWithId(jobId)), thrown |-> None]

\* if (!job) throw new Error(`Job not found: ${jobId}`)
RejectMissing(store, jobId) == [store |-> store, thrown |-> Some(JobNotFound)]

\* updateJob and the three helpers that call it: the store after the call
\* and what the call threw.
CallStore(store, call, jobId) ==
    IF getJob(store, jobId) = None THEN RejectMissing(store, jobId)
    ELSE [thrown |-> None,
          store |->
            CASE call = "updateJob" ->
                    updateJob(store, jobId, [message |-> "Uploading final video..."])
              [] call = "updateJobProgress" ->
                    updateJobProgress(store, jobId, "tts", Percent(0, 1),
                                      "Generating voiceovers...", None)
              [] call = "completeJob" ->
                    completeJob(store, jobId, "output.mp4", None)
              [] call = "failJob" ->
                    failJob(store, jobId, "Unknown error occurred")]

NoCall == [call |-> "", jobId |-> "", before |-> <<>>, thrown |-> None]

InitJobStore ==
    \E held \in SUBSET StoreIds :
        calc = [fn |-> "jobStore", store |-> [id \in held |-> JobWithId(id)],
                calls |-> 0, last |-> NoCall]

StoreCall ==
    /\ calc.fn = "jobStore"
    /\ calc.calls < MaxStoreCalls
    /\ \E call \in StoreCalls, jobId \in StoreIds :
          LET after == CallStore(calc.store, call, jobId)
          IN  calc' = [calc EXCEPT !.store = after.store,
                          !.calls = calc.calls + 1,
                          !.last = [call |-> call, jobId |-> jobId,
                                    before |-> calc.store,
                                    thrown |-> after.thrown]]
    /\ UNCHANGED <<serverVars, browserVars, engineVars, pollVars>>

\* ---- the timeline of the server's stitched output (lib/server/processor)
\* Durations in whole seconds.  The source video is taken to be long enough
\* for every extraction window.

\* Segments of a job in this part.
MaxStitched == 3

\* extractClip(ffmpeg, videoData, segment.sourceTimestamp, 10, ...)
ExtractWindow == 10

\* Durations generateTTS returns, Math.max(1, words / 2.5): for scripts of
\* up to 2, of 25 and of 30 words.
VoiceDurations == {1, 10, 12}

\* Duration of the clip one pass of the per-segment loop pushes: extractClip
\* cuts the window, applyCrop keeps the duration, adjustDuration is given the
\* voice duration as its target.
processedDuration(voiceDuration) ==
    adjustedDurationServer(voiceDuration, ExtractWindow).n

\* Duration of combined_i.mp4: video and audio muxed with -shortest.
combinedDuration(videoDuration, audioDuration) == Min(videoDuration, audioDuration)

\* Sum of the first k entries.
RECURSIVE SumBefore(_, _)
SumBefore(durations, k) ==
    IF k = 0 THEN 0 ELSE SumBefore(durations, k - 1) + durations[k]

\* Start of each part in concatenated.mp4: the concat demuxer puts every file
\* after the end of the one before.
concatStarts(combined) ==
    [i \in 1..Len(combined) |-> SumBefore(combined, i - 1)]

\* currentTime of generateCaptions at each segment: currentTime += duration.
captionOffsets(durations) ==
    [i \in 1..Len(durations) |-> SumBefore(durations, i - 1)]

InitTimeline ==
    \E n \in 1..MaxStitched :
        \E durations \in [1..n -> VoiceDurations] :
            calc = [fn |-> "timeline", durations |-> durations,
                    processed |-> <<>>, done |-> FALSE, starts |-> <<>>,
                    offsets |-> <<>>]

\* One pass of the per-segment loop of processVideo.
ProcessSegment ==
    /\ calc.fn = "timeline"
    /\ Len(calc.processed) < Len(calc.durations)
    /\ LET duration == calc.durations[Len(calc.processed) + 1]
       IN  calc' = [calc EXCEPT !.processed =
                       Append(@, [video |-> processedDuration(duration),
                                  audio |-> duration])]
    /\ UNCHANGED <<serverVars, browserVars, engineVars, pollVars>>

\* stitchSegments, and generateCaptions(job.segments, durations) after it.
StitchTimeline ==
    /\ calc.fn = "timeline"
    /\ ~calc.done
    /\ Len(calc.processed) = Len(calc.durations)
    /\ calc' = [calc EXCEPT !.done = TRUE,
                   !.starts = concatStarts(
                       [i \in 1..Len(calc.processed) |->
                           combinedDuration(calc.processed[i].video,
                                            calc.processed[i].audio)]),
                   !.offsets = captionOffsets(calc.durations)]
    /\ UNCHANGED <<serverVars, browserVars, engineVars, pollVars>>

\* ---- ScriptTable (components/ui/ScriptTable) and parseTimestamp
\* A segment is its sourceTimestamp in seconds.  A timestamp text is the list
\* of its ':'-separated fields after parseInt, None for a field that is no
\* number (NaN), and <<>> for the empty text.

\* Rows of the table.
MaxScriptRows == 2

\* project.videoDuration, in seconds
KnownDuration == 30

\* lib/utils/time.ts parseTimestamp: None is null.
parseTimestamp(text) ==
    IF text = <<>> THEN None
    ELSE IF \E k \in DOMAIN text : text[k] = None THEN None
    ELSE IF Len(text) = 2 THEN Some(text[1][1] * 60 + text[2][1])
    ELSE IF Len(text) = 3
    THEN Some(text[1][1] * 3600 + text[2][1] * 60 + text[3][1])
    ELSE text[1]

\* parseTimestamp(sourceMatch[1]) || 0
ImportedTimestamp(text) ==
    IF parseTimestamp(text) = None THEN 0 ELSE parseTimestamp(text)[1]

\* Texts typed into the source timestamp field: "00:20", "01:00", "-1:30",
\* "abc", "0:0:20" and "25".
TypedTexts ==
    {<<Some(0), Some(20)>>, <<Some(1), Some(0)>>, <<Some(-1), Some(30)>>,
     <<None>>, <<Some(0), Some(0), Some(20)>>, <<Some(25)>>}

\* Texts the import's pattern [\d:]+ can capture: digits and colons only.
ImportTexts == {<<Some(0), Some(20)>>, <<Some(1), Some(0)>>, <<Some(25)>>}

InitScriptTable ==
    calc = [fn |-> "ScriptTable", segments |-> <<>>,
            videoDuration |-> KnownDuration]

\* handleImportScript: the import form is shown while the table is empty;
\* every line gives a segment and an import of no segment changes nothing.
HandleImportScript ==
    /\ calc.fn = "ScriptTable"
    /\ calc.segments = <<>>
    /\ \E n \in 1..MaxScriptRows : \E texts \in [1..n -> ImportTexts] :
          calc' = [calc EXCEPT !.segments =
                      [k \in 1..n |-> ImportedTimestamp(texts[k])]]
    /\ UNCHANGED <<serverVars, browserVars, engineVars, pollVars>>

\* handleAddSegment
HandleAddSegment ==
    /\ calc.fn = "ScriptTable"
    /\ Len(calc.segments) < MaxScriptRows
    /\ calc' = [calc EXCEPT !.segments = Append(@, 0)]
    /\ UNCHANGED <<serverVars, browserVars, engineVars, pollVars>>

\* onChange of the source timestamp input of row k
SourceTimestampOnChange ==
    /\ calc.fn = "ScriptTable"
    /\ \E k \in DOMAIN calc.segments, text \in TypedTexts :
          LET parsed == parseTimestamp(text)
          IN  calc' = IF parsed # None /\ parsed[1] <= calc.videoDuration
                      THEN [calc EXCEPT !.segments[k] = parsed[1]]
                      ELSE calc
    /\ UNCHANGED <<serverVars, browserVars, engineVars, pollVars>>

\* handleRemoveSegment of row k
HandleRemoveSegment ==
    /\ calc.fn = "ScriptTable"
    /\ \E k \in DOMAIN calc.segments :
          calc' = [calc EXCEPT !.segments =
                      [i \in 1..(Len(@) - 1) |-> IF i < k THEN @[i] ELSE @[i + 1]]]
    /\ UNCHANGED <<serverVars, browserVars, engineVars, pollVars>>

\* ---- the project store: segment actions (src/store/projectStore.ts)
\* An entry of project.segments is Some(segment) or None for undefined; a
\* segment is its id and the number of edits of its script.

\* Segments the store is given, and the longest list an action starts from.
MaxListed == 3

\* Array.prototype.splice(start, deleteCount, ...items) on `list`: a negative
\* start counts from the end, a start beyond an end is moved to that end,
\* and deleteCount is cut to what is there.
ActualStart(list, start) ==
    IF start < 0 THEN Max(Len(list) + start, 0) ELSE Min(start, Len(list))

\* The entries splice removes and returns.
Spliced(list, start, deleteCount) ==
    LET from == ActualStart(list, start)
        count == Min(Max(deleteCount, 0), Len(list) - from)
    IN  [k \in 1..count |-> list[from + k]]

\* The array after the splice.
splice(list, start, deleteCount, items) ==
    LET from == ActualStart(list, start)
        count == Len(Spliced(list, start, deleteCount))
    IN  [k \in 1..from |-> list[k]] \o items
            \o [k \in 1..(Len(list) - from - count) |-> list[from + count + k]]

\* const [removed] = ...: the first entry, undefined for an empty array
First(list) == IF list = <<>> THEN None ELSE list[1]

reorderSegments(segments, fromIndex, toIndex) ==
    LET removed == First(Spliced(segments, fromIndex, 1))
    IN  splice(splice(segments, fromIndex, 1, <<>>), toIndex, 0, <<removed>>)

\* [...state.project.segments, { ...segment, id: uuidv4() }]
addSegment(segments, id) == Append(segments, Some([id |-> id, script |-> 0]))

\* seg.id of an undefined entry throws a TypeError inside the callback of
\* set, and the store keeps its state.
HasUndefined(segments) == \E k \in DOMAIN segments : segments[k] = None

\* segments.map((seg) => seg.id === id ? { ...seg, ...updates } : seg)
updateSegment(segments, id) ==
    IF HasUndefined(segments) THEN segments
    ELSE [k \in DOMAIN segments |->
             IF segments[k][1].id = id
             THEN Some([segments[k][1] EXCEPT !.script = 1])
             ELSE segments[k]]

\* segments.filter((seg) => seg.id !== id)
removeSegment(segments, id) ==
    IF HasUndefined(segments) THEN segments
    ELSE SelectSeq(segments, LAMBDA seg : seg[1].id # id)

\* Indices handed to reorderSegments.
Indices == (0 - MaxListed - 1)..(MaxListed + 1)

InitSegments ==
    calc = [fn |-> "segments", segments |-> <<>>, before |-> <<>>,
            action |-> "", added |-> 0]

AddSegment ==
    /\ calc.fn = "segments"
    /\ calc.added < MaxListed
    /\ calc' = [calc EXCEPT !.before = calc.segments, !.action = "addSegment",
                   !.added = @ + 1,
                   !.segments = addSegment(calc.segments, calc.added + 1)]
    /\ UNCHANGED <<serverVars, browserVars, engineVars, pollVars>>

UpdateSegment ==
    /\ calc.fn = "segments"
    /\ \E id \in 1..MaxListed :
          calc' = [calc EXCEPT !.before = calc.segments,
                      !.action = "updateSegment",
                      !.segments = updateSegment(calc.segments, id)]
    /\ UNCHANGED <<serverVars, browserVars, engineVars, pollVars>>

RemoveSegment ==
    /\ calc.fn = "segments"
    /\ \E id \in 1..MaxListed :
          calc' = [calc EXCEPT !.before = calc.segments,
                      !.action = "removeSegment",
                      !.segments = removeSegment(calc.segments, id)]
    /\ UNCHANGED <<serverVars, browserVars, engineVars, pollVars>>

ReorderSegments ==
    /\ calc.fn = "segments"
    /\ Len(calc.segments) <= MaxListed
    /\ \E fromIndex \in Indices, toIndex \in Indices :
          calc' = [calc EXCEPT !.before = calc.segments,
                      !.action = "reorderSegments",
                      !.segments = reorderSegments(calc.segments, fromIndex,
                                                   toIndex)]
    /\ UNCHANGED <<serverVars, browserVars, engineVars, pollVars>>

InitCalc ==
    /\ \/ InitAdjustDuration
       \/ InitCrop
       \/ InitCaptions
       \/ InitMix
       \/ InitSegments
       \/ InitScriptTable
       \/ InitTimeline
       \/ InitJobStore
       \/ InitAnalyze
       \/ InitSmooth
       \/ InitProjectStore
    /\ InertServer /\ ServerStart /\ InertBrowser /\ BrowserStart
    /\ InertEngines /\ InertPoller

NextCalc ==
    \/ ApplyAdjustDuration
    \/ CalculateCrop
    \/ GenerateCaptions
    \/ MixAudioBuffers
    \/ ReorderSegments
    \/ RemoveSegment
    \/ UpdateSegment
    \/ AddSegment
    \/ HandleRemoveSegment
    \/ SourceTimestampOnChange
    \/ HandleAddSegment
    \/ HandleImportScript
    \/ StitchTimeline
    \/ ProcessSegment
    \/ StoreCall
    \/ AnalyzeReturns
    \/ AnalyzeFrame
    \/ InitFaceDetector
    \/ SmoothCropRegions
    \/ SetMusicVolume

SpecCalc == InitCalc /\ [][NextCalc]_vars


\* ------------------------------------------------------ the Piper client
\* loadVoice, synthesize and unloadVoice of lib/piper/client and
\* synthesizeText of lib/piper/synthesize.  loadVoice contains no await: a
\* call runs from its first line to its last in one step.  A caller of
\* synthesizeText is suspended at `await loadVoice(voice)` and at
\* `await synthesize(text)`, where other callers run.

Voices == {"voice-a", "voice-b"}

\* The module variables before the first call: piperInstance (0 is null,
\* k > 0 the k-th instance created), currentVoice, isLoading, and the voice
\* each instance was created for.
NewPiper ==
    [kind |-> "piper", piperInstance |-> 0, currentVoice |-> None,
     isLoading |-> FALSE, instances |-> <<>>]

\* loadVoice(voice): the module variables after the call and what it threw.
loadVoice(l, voice) ==
    IF l.currentVoice = Some(voice) /\ l.piperInstance # 0
    THEN [piper |-> l, thrown |-> ""]
    ELSE IF l.isLoading
    THEN [piper |-> l, thrown |-> "Voice is already being loaded"]
    ELSE [piper |-> [l EXCEPT !.instances = Append(@, voice),
                              !.piperInstance = Len(l.instances) + 1,
                              !.currentVoice = Some(voice),
                              !.isLoading = FALSE],
          thrown |-> ""]

\* unloadVoice()
unloadVoice(l) == [l EXCEPT !.piperInstance = 0, !.currentVoice = None]

\* A caller of synthesizeText before the call: the voice it asks for, the
\* instance that synthesizes for it and the voice of the audio it gets.
IdleSpeaker ==
    [state |-> "idle", voice |-> "", instance |-> 0, audio |-> "", error |-> ""]

\* synthesizeText(text, voice) up to `await loadVoice(voice)`
SynthesizeTextCall(c) ==
    /\ loader.kind = "piper"
    /\ callers[c].state = "idle"
    /\ \E voice \in Voices :
          LET loaded == loadVoice(loader, voice)
          IN  /\ loader' = loaded.piper
              /\ callers' = [callers EXCEPT
                    ![c].voice = voice,
                    ![c].state = IF loaded.thrown = "" THEN "awaitLoadVoice"
                                 ELSE "threw",
                    ![c].error = loaded.thrown]
    /\ UNCHANGED <<serverVars, browserVars, pollVars, calcVars>>

\* The await of loadVoice ends: synthesize(text) throws without an instance
\* and otherwise hands the text to piperInstance.
SynthesizeCall(c) ==
    /\ loader.kind = "piper"
    /\ callers[c].state = "awaitLoadVoice"
    /\ callers' = IF loader.piperInstance = 0
                  THEN [callers EXCEPT ![c].state = "threw",
                           ![c].error = "No voice loaded. Call loadVoice first."]
                  ELSE [callers EXCEPT ![c].state = "awaitSynthesize",
                           ![c].instance = loader.piperInstance]
    /\ UNCHANGED <<loader, serverVars, browserVars, pollVars, calcVars>>

\* The await of synthesize ends: synthesizeText returns the audio of the
\* instance that was called.
SynthesizeTextReturns(c) ==
    /\ loader.kind = "piper"
    /\ callers[c].state = "awaitSynthesize"
    /\ callers' = [callers EXCEPT ![c].state = "returned",
                      ![c].audio = loader.instances[callers[c].instance]]
    /\ UNCHANGED <<loader, serverVars, browserVars, pollVars, calcVars>>

\* unloadVoice() is called.
UnloadVoice ==
    /\ loader.kind = "piper"
    /\ loader' = unloadVoice(loader)
    /\ UNCHANGED <<callers, serverVars, browserVars, pollVars, calcVars>>

InitPiper ==
    /\ loader = NewPiper
    /\ callers = [c \in 1..MaxCallers |-> IdleSpeaker]
    /\ InertServer /\ ServerStart /\ InertBrowser /\ BrowserStart
    /\ InertPoller /\ InertCalc

NextPiper ==
    \/ \E c \in 1..MaxCallers : SynthesizeTextCall(c)
    \/ \E c \in 1..MaxCallers : SynthesizeCall(c)
    \/ \E c \in 1..MaxCallers : SynthesizeTextReturns(c)
    \/ UnloadVoice

SpecPiper == InitPiper /\ [][NextPiper]_vars

\* ------------------------------------- jobs sharing the server's FFmpeg
\* Every processVideo of a process gets the one ffmpegInstance of getFFmpeg
\* and with it one virtual filesystem.  extractClip, applyCrop and
\* adjustDuration each make five awaited calls on it (writeFile, exec,
\* readFile, deleteFile, deleteFile); the instance serves one call at a time
\* and between two calls of one job the calls of other jobs run.  Each job
\* here works on its segment 0; the content of a file or buffer is the job
\* whose source video it was derived from (0: no content).

\* inputName and outputName of the three helpers, as processVideo calls them
\* for i = 0.
ClipHelpers ==
    << [inputName |-> "input.mp4", outputName |-> "clip_0.mp4"],
       [inputName |-> "clip_input.mp4", outputName |-> "cropped_0.mp4"],
       [inputName |-> "adjust_input.mp4", outputName |-> "adjusted_0.mp4"] >>

ScratchNames ==
    {ClipHelpers[h].inputName : h \in 1..3} \cup {ClipHelpers[h].outputName : h \in 1..3}

NoFile == [content |-> 0, writer |-> 0]

\* The instance before any job used it.
NewProcessor ==
    [kind |-> "processor", files |-> [n \in ScratchNames |-> NoFile],
     clobbered |-> FALSE]

\* A job's run at the head of its per-segment loop, videoData in hand.
JobAtLoop(j) ==
    [state |-> "running", helper |-> 1, call |-> "writeFile", data |-> j,
     clips |-> <<>>]

\* Whether job j, writing or deleting `name`, hits a file another job wrote.
Foreign(l, name, j) == l.files[name].writer \notin {0, j}

\* await ffmpeg.writeFile(inputName, data)
HelperWriteFile(j) ==
    /\ loader.kind = "processor"
    /\ callers[j].state = "running" /\ callers[j].call = "writeFile"
    /\ LET name == ClipHelpers[callers[j].helper].inputName
       IN  loader' = [loader EXCEPT
               !.files[name] = [content |-> callers[j].data, writer |-> j],
               !.clobbered = @ \/ Foreign(loader, name, j)]
    /\ callers' = [callers EXCEPT ![j].call = "exec"]
    /\ UNCHANGED <<serverVars, browserVars, pollVars, calcVars>>

\* await ffmpeg.exec([... '-i', inputName, ... '-y', outputName]): the output
\* is made from what inputName holds now; without the input nothing is
\* written and exec returns its exit code.
HelperExec(j) ==
    /\ loader.kind = "processor"
    /\ callers[j].state = "running" /\ callers[j].call = "exec"
    /\ LET h == ClipHelpers[callers[j].helper]
           input == loader.files[h.inputName]
       IN  loader' = IF input.content = 0 THEN loader
                     ELSE [loader EXCEPT
                              !.files[h.outputName] =
                                  [content |-> input.content, writer |-> j],
                              !.clobbered = @ \/ Foreign(loader, h.outputName, j)]
    /\ callers' = [callers EXCEPT ![j].call = "readFile"]
    /\ UNCHANGED <<serverVars, browserVars, pollVars, calcVars>>

\* const data = await ffmpeg.readFile(outputName): throws without the file.
HelperReadFile(j) ==
    /\ loader.kind = "processor"
    /\ callers[j].state = "running" /\ callers[j].call = "readFile"
    /\ LET output == loader.files[ClipHelpers[callers[j].helper].outputName]
       IN  callers' = IF output.content = 0
                      THEN [callers EXCEPT ![j].state = "threw"]
                      ELSE [callers EXCEPT ![j].call = "deleteInput",
                                           ![j].data = output.content]
    /\ UNCHANGED <<loader, serverVars, browserVars, pollVars, calcVars>>

\* The file `name` deleted by job j, and the job after the call: deleteFile
\* throws without the file.
DeleteFile(j, name, nextCall) ==
    IF loader.files[name].content = 0
    THEN /\ callers' = [callers EXCEPT ![j].state = "threw"]
         /\ UNCHANGED loader
    ELSE /\ loader' = [loader EXCEPT !.files[name] = NoFile,
                          !.clobbered = @ \/ Foreign(loader, name, j)]
         /\ callers' = nextCall

\* await ffmpeg.deleteFile(inputName)
HelperDeleteInput(j) ==
    /\ loader.kind = "processor"
    /\ callers[j].state = "running" /\ callers[j].call = "deleteInput"
    /\ DeleteFile(j, ClipHelpers[callers[j].helper].inputName,
                  [callers EXCEPT ![j].call = "deleteOutput"])
    /\ UNCHANGED <<serverVars, browserVars, pollVars, calcVars>>

\* await ffmpeg.deleteFile(outputName); return data: the helper's result is
\* the next helper's clipData, the third result ends the pass of the loop.
HelperDeleteOutput(j) ==
    /\ loader.kind = "processor"
    /\ callers[j].state = "running" /\ callers[j].call = "deleteOutput"
    /\ DeleteFile(j, ClipHelpers[callers[j].helper].outputName,
                  [callers EXCEPT
                      ![j].clips = Append(@, callers[j].data),
                      ![j].call = "writeFile",
                      ![j].helper = IF @ = 3 THEN 3 ELSE @ + 1,
                      ![j].state = IF callers[j].helper = 3 THEN "processed"
                                   ELSE "running"])
    /\ UNCHANGED <<serverVars, browserVars, pollVars, calcVars>>

InitProcessor ==
    /\ loader = NewProcessor
    /\ callers = [j \in 1..MaxCallers |-> JobAtLoop(j)]
    /\ InertServer /\ ServerStart /\ InertBrowser /\ BrowserStart
    /\ InertPoller /\ InertCalc

NextProcessor ==
    \/ \E j \in 1..MaxCallers : HelperWriteFile(j)
    \/ \E j \in 1..MaxCallers : HelperExec(j)
    \/ \E j \in 1..MaxCallers : HelperReadFile(j)
    \/ \E j \in 1..MaxCallers : HelperDeleteInput(j)
    \/ \E j \in 1..MaxCallers : HelperDeleteOutput(j)

SpecProcessor == InitProcessor /\ [][NextProcessor]_vars

\* ------------------------------------------------------------ the claims

HasJob == JobId \in DOMAIN memoryStore
TerminalStatus == {"complete", "error"}
ServerRunEnded == pc \in {"done", "unhandled"}

\* C1: during one run of processVideo the stages written to the job record
\* only move forward in the order queued, loading, tts, extracting,
\* detecting, cropping, stitching, complete; the jump to error is the only
\* exception.  (No stage later in the order has been written before the
\* stage the record shows now.)
StageOnlyMovesForward ==
    (HasJob /\ Job.stage # "error") =>
        \A s \in Stages \ {"error"} :
            shown[s] >= 0 => StageRank(s) <= StageRank(Job.stage)

\* C2: two status reads that show the same stage never show progress
\* decreasing from the earlier to the later, and progress stays in 0..100.
ProgressNeverDecreasesWithinStage ==
    HasJob =>
        /\ Job.progress >= shown[Job.stage]
        /\ Job.progress >= 0
        /\ Job.progress <= Percent(100, NumSegments)

\* C3: a job becomes terminal exactly once: at most one of completeJob and
\* failJob takes effect, and once the status is complete or error no later
\* write changes status, stage, outputUrl or error.
TerminalExactlyOnce ==
    /\ [](terminalWrites <= 1)
    /\ [][(HasJob /\ Job.status \in TerminalStatus) =>
             /\ memoryStore'[JobId].status = Job.status
             /\ memoryStore'[JobId].stage = Job.stage
             /\ memoryStore'[JobId].outputUrl = Job.outputUrl
             /\ memoryStore'[JobId].error = Job.error]_vars

\* C3 witness: completeJob was reached and did not persist, failJob did.
TerminalExactlyOnceWitness ==
    /\ pc = "done"
    /\ uploaded # None
    /\ Job.status = "error"
    /\ terminalWrites = 1

\* C4: every started run leaves the job record with status complete or
\* error, also when writes to the job store fail.
EveryRunEndsTerminal ==
    ServerRunEnded => Job.status \in TerminalStatus

\* The positions of the updateJobProgress calls of processVideo.
ProgressWritePositions ==
    {"loading0", "loading100", "extracting0", "extracting20", "tts0",
     "ttsProgress", "detecting0", "detectingProgress", "cropping70",
     "cropping90", "stitching0", "stitching20", "stitching80"}

\* C5: a progress update that fails to persist does not abort the job: no
\* updateJobProgress call takes the run to the catch.
FailedProgressWriteDoesNotAbort ==
    [][(pc \in ProgressWritePositions) => (pc' # "catch")]_vars

\* A body with a missing videoUrl, a missing or empty segments array or a
\* missing voiceId.
MissingRequiredField ==
    \/ body.videoUrl = None
    \/ body.segments = None
    \/ body.segments = Some(<<>>)
    \/ body.voiceId = None

\* C6: a POST with a missing videoUrl, a missing or empty segments array or a
\* missing voiceId is answered with an error before any job record is
\* created and without starting processVideo.
InvalidRequestCreatesNoJob ==
    MissingRequiredField =>
        /\ memoryStore = <<>>
        /\ pc \in {"noRequest", "request", "rejected"}
        /\ pc = "rejected" => response \in {Some(400), Some(500)}
        /\ shown = [s \in Stages |-> -1]

\* C6 witness: a request with an empty segments array and the other fields
\* present was answered 400.
InvalidRequestWitness ==
    /\ body.segments = Some(<<>>)
    /\ body.videoUrl = Some("video.mp4")
    /\ body.voiceId = Some("voice")
    /\ response = Some(400)

\* The steps of processVideo that are no writes to the job store.
PipelineSteps ==
    {"getFFmpeg", "downloadVideo", "generateTTS", "extractClip", "applyCrop",
     "adjustDuration", "downloadMusic", "stitchSegments", "upload"}
StepFailed == caught.message \in PipelineSteps

\* C7: when a step of processVideo fails, the job ends with status error
\* and a non-empty error string, and outputUrl is never set.
FailedStepEndsInError ==
    (StepFailed /\ ServerRunEnded) =>
        /\ Job.status = "error"
        /\ Job.error # None
        /\ Job.error # Some("")
        /\ Job.outputUrl = None

\* C8, server: voiceovers, clips and stitched parts are those of the
\* segments in array order, the clip in work is the next segment's, and
\* clip k is matched to and paired with the voiceover of segment k.
ServerKeepsArrayOrder ==
    HasJob =>
        LET segs == Job.segments
        IN  /\ Len(ttsResults) <= Len(segs)
            /\ \A k \in 1..Len(ttsResults) : ttsResults[k].of = segs[k]
            /\ Len(processedSegments) <= Len(ttsResults)
            /\ \A k \in 1..Len(processedSegments) :
                  /\ processedSegments[k].video.of = segs[k]
                  /\ processedSegments[k].audio.of = segs[k]
                  /\ processedSegments[k].video.fitted = Some([of |-> segs[k]])
            /\ clipData # None =>
                  clipData[1].of = segs[Len(processedSegments) + 1]
            /\ finalVideo # None =>
                  /\ Len(finalVideo[1].parts) = Len(segs)
                  /\ \A k \in 1..Len(segs) :
                        /\ finalVideo[1].parts[k].video.of = segs[k]
                        /\ finalVideo[1].parts[k].audio.of = segs[k]

\* C8, browser: the same for the browser run.
BrowserKeepsArrayOrder ==
    LET segs == project.segments
    IN  /\ Len(bTtsResults) <= Len(segs)
        /\ \A k \in 1..Len(bTtsResults) : bTtsResults[k].of = segs[k]
        /\ Len(extractedClips) <= Len(bTtsResults)
        /\ \A k \in 1..Len(extractedClips) : extractedClips[k].of = segs[k]
        /\ Len(processedClips) <= Len(extractedClips)
        /\ \A k \in 1..Len(processedClips) :
              /\ processedClips[k].of = segs[k]
              /\ processedClips[k].fitted = Some([of |-> segs[k]])
        /\ croppedClip # None =>
              croppedClip[1].of = segs[Len(processedClips) + 1]
        /\ project.outputVideo # None =>
              /\ Len(project.outputVideo[1].parts) = Len(segs)
              /\ \A k \in 1..Len(segs) :
                    /\ project.outputVideo[1].parts[k].video.of = segs[k]
                    /\ project.outputVideo[1].parts[k].audio.of = segs[k]

\* C8: for every segment list the segments are synthesized, extracted,
\* cropped, adjusted and stitched one at a time in array order, clip i is
\* paired with the voiceover of segment i, and the order of the concat list
\* is the order of the input array.
SegmentsKeepArrayOrder == ServerKeepsArrayOrder /\ BrowserKeepsArrayOrder

\* C8 witness: the server stitched a list of three or more segments whose
\* ids are not in ascending order.
SegmentsKeepArrayOrderWitness ==
    /\ finalVideo # None
    /\ Len(Job.segments) >= 3
    /\ Job.segments[1] > Job.segments[2]

\* C9: a failed fetch of the selected background music is fatal: the run
\* ends in the error state and produces no output video, on the server and
\* in the browser.
MusicFetchFailureIsFatal ==
    /\ (pc = "done" /\ caught.message = "downloadMusic") =>
          Job.status = "error" /\ Job.outputUrl = None
    /\ (/\ bpc = "done"
        /\ project.selectedMusic # None
        /\ Len(processedClips) = Len(project.segments)
        /\ Len(project.segments) > 0
        /\ musicBlob = None) =>
          processingState.stage = "error" /\ project.outputVideo = None

\* The scratch files of the per-segment media steps.
SegmentScratchFiles ==
    {File("input.mp4", 0), File("clip_input.mp4", 0),
     File("adjust_input.mp4", 0), File("clip.mp4", 0), File("cropped.mp4", 0),
     File("adjusted.mp4", 0)}
        \cup {File(name, k) : name \in {"clip_", "cropped_", "adjusted_"},
                              k \in 0..MaxSegments}
        \cup {File("frame_", k) : k \in 1..(MaxFrames + 1)}

\* C10: after a per-segment media step has finished, by returning or by
\* throwing, none of the scratch files it wrote remains, on the server and
\* in the browser.  (Every media step is one step of the model, so every
\* state lies after the steps taken so far.)
NoScratchFilesAfterStep ==
    /\ fs \cap SegmentScratchFiles = {}
    /\ browserFs \cap SegmentScratchFiles = {}

\* C11: engine initialisation is single-flight.  While a load is in flight
\* no second load is started (a new load starts only after the previous one
\* failed), every caller that arrived meanwhile waits on the promise of that
\* load, all callers that return hold the same instance, the one the module
\* keeps, and no caller fails with the 'already being loaded' error.
SingleFlightInit ==
    loader.kind # "none" =>
        /\ Cardinality(Pending(loader)) <= 1
        /\ loader.loads <= 1 + Cardinality({p \in DOMAIN loader.promises :
                                   loader.promises[p].error = LoadFailed})
        /\ \A c \in DOMAIN callers :
              /\ callers[c].error # AlreadyLoading(loader.kind)
              /\ (callers[c].state = "waiting"
                     /\ loader.promises[callers[c].awaits].state = "pending")
                 => callers[c].awaits = loader.loadPromise
              /\ callers[c].state = "returned"
                 => /\ callers[c].value = loader.instance
                    /\ callers[c].value # 0

\* Every caller has its instance, two of them or more through the promise
\* of the one load that ran.
SingleFlightInitWitness ==
    /\ loader.kind # "none"
    /\ loader.loads = 1
    /\ \A c \in DOMAIN callers : callers[c].state = "returned"
    /\ Cardinality({c \in DOMAIN callers : callers[c].awaits # 0}) >= 2

\* C12: a valid POST creates the job record with status pending, stage
\* queued, progress 0 and totalSegments the number of segments, and answers
\* 200 while processVideo stands before its first write; the record exists
\* whenever processVideo runs; and the run ends in a terminal state.
ValidPostCreatesPendingJob ==
    /\ [][(pc = "request" /\ response' = Some(200)) =>
            /\ ValidationError(body) = None
            /\ memoryStore' = (JobId :> NewJob(body))
            /\ Job'.status = "pending"
            /\ Job'.stage = "queued"
            /\ Job'.progress = 0
            /\ Job'.totalSegments = Len(body.segments[1])
            /\ pc' = "loading0"]_vars
    /\ [](pc \notin {"noRequest", "request", "rejected"} => HasJob)
    /\ [](ServerRunEnded => Job.status \in TerminalStatus)

\* The texts processVideo writes that name segment k of n.
TextsNaming(k, n) ==
    {SegmentMessage(text, k, n) :
        text \in {"Synthesizing segment", "Extracting clip", "Cropping clip",
                  "Adjusting duration"}}

\* C20: when extractClip failed for segment k and the failure was recorded,
\* the job has status error and its error or its message names segment k.
ExtractionErrorNamesSegment ==
    (caught.message = "extractClip" /\ pc = "done") =>
        /\ Job.status = "error"
        /\ \/ Job.message \in TextsNaming(segIdx, NumSegments)
           \/ \E text \in TextsNaming(segIdx, NumSegments) : Job.error = Some(text)

\* C13: the client polls every POLL_INTERVAL milliseconds; processing a
\* failed poll leaves the timer set; once a reply with status complete or
\* error has been processed the timer is cleared and no poll request is
\* issued any more.
PollingStopsAtTerminal ==
    /\ [](poller.mode = "polling" =>
            /\ \A r \in 2..Len(poller.requests) :
                  poller.requests[r].at - poller.requests[r - 1].at = POLL_INTERVAL
            /\ poller.terminalProcessed => ~poller.pollingRef)
    /\ [][poller.mode = "polling" =>
            /\ poller.terminalProcessed =>
                  Len(poller'.requests) = Len(poller.requests)
            /\ \A r \in DOMAIN poller.requests :
                  (/\ poller.requests[r].state = "replied"
                   /\ ~poller.requests[r].reply[1].ok
                   /\ poller'.requests[r].state = "done")
                  => poller'.pollingRef = poller.pollingRef]_vars

\* A poll failed and was processed, a later poll brought the terminal status
\* and was processed too.
PollingStopsAtTerminalWitness ==
    /\ poller.mode = "polling"
    /\ poller.terminalProcessed
    /\ \E r1, r2 \in DOMAIN poller.requests :
          /\ r1 < r2
          /\ poller.requests[r1].state = "done"
          /\ ~poller.requests[r1].reply[1].ok
          /\ poller.requests[r2].state = "done"
          /\ poller.requests[r2].reply[1].status \in TerminalStatus

\* C14: for every pair of durations, zero included, the speed adjustDuration
\* applies is a number between 0.5 and 2.0.
ClampedSpeedInRange ==
    (calc.fn = "adjustDuration" /\ calc.done) =>
        /\ calc.clampedSpeed.kind = "finite"
        /\ ~Less(calc.clampedSpeed, Fraction(1, 2))
        /\ ~Less(Fraction(2, 1), calc.clampedSpeed)

WithinFrame(region, videoWidth, videoHeight) ==
    /\ 0 <= region.x
    /\ 0 <= region.y
    /\ region.x + region.width <= videoWidth
    /\ region.y + region.height <= videoHeight

\* C15: for every frame size and every list of face centres the regions of
\* calculateOptimalCrop and of calculateCropRegion lie within the frame and
\* their width is height * 9 / 16 up to one pixel.
CropRegionWithinFrame ==
    (calc.fn = "crop" /\ calc.done) =>
        \A region \in {calc.cropRegion, calc.applied} :
            /\ WithinFrame(region, calc.videoWidth, calc.videoHeight)
            /\ 16 * region.width - 9 * region.height <= 16
            /\ 9 * region.height - 16 * region.width <= 16

\* Both regions were moved back into the frame: a face right of and below a
\* frame that is wider than 9:16, among frames without a face.
CropRegionWithinFrameWitness ==
    /\ calc.fn = "crop" /\ calc.done
    /\ Len(calc.faceCenters) = MaxCenters
    /\ calc.faceCenters[1] = None
    /\ calc.faceCenters[MaxCenters] = Some([x |-> MaxDim + 1, y |-> MaxDim + 1])
    /\ calc.applied.x > 0
    /\ calc.applied.x + calc.applied.width = calc.videoWidth
    /\ calc.cropRegion.x = calc.applied.x

\* C16: when no sampled frame shows a face, the region applied to the clip
\* is centred horizontally, places the point at a third of the frame height
\* a third down the crop, and lies within the frame.
NoFaceCropIsUpperThird ==
    (/\ calc.fn = "crop" /\ calc.done
     /\ validCenters(calc.faceCenters) = <<>>) =>
        /\ calc.applied.x = Round(calc.videoWidth - calc.applied.width, 2)
        /\ calc.applied.y = Clamp(Round(calc.videoHeight - calc.applied.height, 3),
                                  0, calc.videoHeight - calc.applied.height)
        /\ WithinFrame(calc.applied, calc.videoWidth, calc.videoHeight)

\* The sum of the first k durations, as the code adds them up.
RECURSIVE SumOfDurations(_, _)
SumOfDurations(durations, k) ==
    IF k = 0 THEN Zero
    ELSE FAdd(SumOfDurations(durations, k - 1), durations[k])

\* The words of one segment tile the window from `start` to `start + d`.
Tiles(words, start, d) ==
    /\ \A k \in DOMAIN words :
          /\ words[k].text = k
          /\ FLeq(words[k].startTime, words[k].endTime)
    /\ words[1].startTime = start
    /\ \A k \in 2..Len(words) : words[k].startTime = words[k - 1].endTime
    /\ words[Len(words)].endTime = FAdd(start, d)

\* estimateWordTimings of captions.ts: for a text with a word or more and a duration
\* above 0, the words are in text order, the first starts at the start of
\* the segment, each starts where the one before ends and the last ends at
\* start + duration.
EstimatedWordsTile ==
    (calc.fn = "captions" /\ calc.done) =>
        \A i \in DOMAIN calc.segments :
            (/\ SplitWords(calc.segments[i].script) # <<>>
             /\ \A k \in 1..i : calc.durations[k] # Zero)
            => Tiles(calc.captions[i].words,
                     SumOfDurations(calc.durations, i - 1), calc.durations[i])

\* C17: the same for estimateWordTimings and for generateCaptions of the
\* processor.
CaptionWordsTileSegment ==
    /\ EstimatedWordsTile
    /\ (calc.fn = "captions" /\ calc.done) =>
          \A i \in DOMAIN calc.segments :
              (/\ SplitWords(calc.segments[i].script) # <<>>
               /\ calc.durations[i] # Zero)
              => Tiles(calc.serverCaptions[i].words,
                       SumOfDurations(calc.durations, i - 1), calc.durations[i])

Within(words, from, to) ==
    \A k \in DOMAIN words :
        /\ FLeq(from, words[k].startTime)
        /\ FLeq(words[k].startTime, words[k].endTime)
        /\ FLeq(words[k].endTime, to)

\* C18: in the output of generateCaptions, of captions.ts and of the
\* processor, the words of segment i lie between the sum of the durations
\* before i and the sum of the durations up to i.
CaptionWindowsDoNotOverlap ==
    (calc.fn = "captions" /\ calc.done) =>
        \A i \in DOMAIN calc.segments :
            /\ calc.captions[i].segmentId = calc.segments[i].id
            /\ Within(calc.captions[i].words,
                      SumOfDurations(calc.durations, i - 1),
                      SumOfDurations(calc.durations, i))
            /\ calc.serverCaptions[i].segmentId = calc.segments[i].id
            /\ Within(calc.serverCaptions[i].words,
                      SumOfDurations(calc.durations, i - 1),
                      SumOfDurations(calc.durations, i))

\* The music sample mixed into frame k of channel c: the music loops when
\* it is shorter and is cut when it is longer, and its last channel serves
\* the channels it does not have.
MusicSample(c, k) ==
    LET channels == calc.secondary.numberOfChannels
    IN  calc.secondary.data[IF c > channels THEN channels ELSE c]
                           [((k - 1) % calc.secondary.length) + 1]

\* Four times primary[i] + secondary[i mod len] * volume, in halves.
MixedTimesFour(c, k) ==
    4 * calc.primary.data[c][k] + MusicSample(c, k) * calc.secondaryVolume

SameShapeAsPrimary ==
    /\ calc.result.numberOfChannels = calc.primary.numberOfChannels
    /\ calc.result.length = calc.primary.length
    /\ DOMAIN calc.result.data = 1..calc.primary.numberOfChannels
    /\ \A c \in DOMAIN calc.result.data :
          DOMAIN calc.result.data[c] = 1..calc.primary.length

\* C19, as stated: the result of mixAudioBuffers has the length and the
\* channel count of the primary buffer, and every output sample equals
\* clamp(primary[i] + secondary[i mod len] * volume, -1, 1).
MixEqualsClampedSum ==
    (calc.fn = "mixAudioBuffers" /\ calc.done) =>
        /\ SameShapeAsPrimary
        /\ \A c \in DOMAIN calc.result.data :
              \A k \in DOMAIN calc.result.data[c] :
                  4 * calc.result.data[c][k]
                      = Clamp(MixedTimesFour(c, k), -4 * FullScale, 4 * FullScale)

\* C19, amended: the result of mixAudioBuffers has the length and the
\* channel count of the primary buffer for every length of the secondary
\* buffer, and every output sample is the sample nearest to
\* clamp(primary[i] + secondary[i mod len] * volume, -1, 1).
MixKeepsPrimaryLength ==
    (calc.fn = "mixAudioBuffers" /\ calc.done) =>
        /\ SameShapeAsPrimary
        /\ \A c \in DOMAIN calc.result.data :
              \A k \in DOMAIN calc.result.data[c] :
                  calc.result.data[c][k]
                      = StoreSample(Clamp(MixedTimesFour(c, k),
                                          -4 * FullScale, 4 * FullScale), 4)

\* A mix in which the music is shorter than the voice and loops, one sample
\* is clamped and one is rounded on being stored.
MixKeepsPrimaryLengthWitness ==
    /\ calc.fn = "mixAudioBuffers"
    /\ calc.done
    /\ calc.secondary.length < calc.primary.length
    /\ calc.secondary.data[1][1] # calc.secondary.data[1][calc.secondary.length]
    /\ \E c \in DOMAIN calc.result.data : \E k \in DOMAIN calc.result.data[c] :
          MixedTimesFour(c, k) < -4 * FullScale
    /\ \E c \in DOMAIN calc.result.data : \E k \in DOMAIN calc.result.data[c] :
          MixedTimesFour(c, k) % 4 # 0

\* C21: every job record created by POST has a music volume between 0 and 1
\* (0 and 10 tenths), and so has the project store after any sequence of
\* setMusicVolume calls.
MusicVolumeInUnitRange ==
    /\ \A id \in DOMAIN memoryStore :
          /\ memoryStore[id].musicVolume >= 0
          /\ memoryStore[id].musicVolume <= 10
    /\ calc.fn = "projectStore" =>
          /\ calc.project.musicVolume.kind = "finite"
          /\ ~Less(calc.project.musicVolume, Fraction(0, 1))
          /\ ~Less(Fraction(1, 1), calc.project.musicVolume)

\* C22: smoothCropRegions keeps the length, the first region and every
\* width and height, and for i >= 1 gives
\* smoothed[i].x = round(0.7 * smoothed[i-1].x + 0.3 * regions[i].x),
\* likewise for y.
SmoothingRetainsSeventyPercent ==
    (calc.fn = "smoothCropRegions" /\ calc.done) =>
        /\ Len(calc.smoothed) = Len(calc.cropRegions)
        /\ \A i \in DOMAIN calc.smoothed :
              /\ calc.smoothed[i].width = calc.cropRegions[i].width
              /\ calc.smoothed[i].height = calc.cropRegions[i].height
              /\ i = 1 => calc.smoothed[i] = calc.cropRegions[i]
              /\ i > 1 =>
                    /\ calc.smoothed[i].x
                         = Round(7 * calc.smoothed[i - 1].x
                                   + 3 * calc.cropRegions[i].x, 10)
                    /\ calc.smoothed[i].y
                         = Round(7 * calc.smoothed[i - 1].y
                                   + 3 * calc.cropRegions[i].y, 10)

\* C23: for face centres with a detection or more, the rectangle applied to
\* the clip by smartCrop is the rectangle calculateOptimalCrop gives for the
\* same centres and frame.
AppliedCropIsWeightedCrop ==
    (calc.fn = "crop" /\ calc.done /\ validCenters(calc.faceCenters) # <<>>) =>
        calc.applied \in calculateOptimalCrop(calc.faceCenters, calc.videoWidth,
                                              calc.videoHeight)

\* The centres of the detections of a frame that no other detection of the
\* frame exceeds in confidence.
HighestConfidenceCenters(frame) ==
    {getFaceCenter(frame.detections[k]) : k \in
        {k \in DOMAIN frame.detections :
            \A j \in DOMAIN frame.detections :
                frame.detections[j].confidence <= frame.detections[k].confidence}}

\* C24: analyzeFramesForFaces returns one entry per frame, in the order of
\* the frames: the centre of the highest-confidence detection of the frame,
\* null for a frame without a detection and null for a frame whose
\* detection fails, which does not stop the frames after it.
FaceCentersFollowFrames ==
    (calc.fn = "analyzeFramesForFaces" /\ calc.at = "returned") =>
        /\ Len(calc.results) = Len(calc.frames)
        /\ \A i \in DOMAIN calc.frames :
              IF calc.frames[i].throws \/ calc.frames[i].detections = <<>>
              THEN calc.results[i] = None
              ELSE /\ calc.results[i] # None
                   /\ calc.results[i][1] \in HighestConfidenceCenters(calc.frames[i])

\* An analysis that returned after a frame whose detection failed, followed
\* by a frame with two detections of which the second is the more confident.
FaceCentersFollowFramesWitness ==
    /\ calc.fn = "analyzeFramesForFaces"
    /\ calc.at = "returned"
    /\ Len(calc.frames) = 2
    /\ calc.frames[1].throws
    /\ Len(calc.frames[2].detections) = 2
    /\ calc.frames[2].detections[1].confidence
         < calc.frames[2].detections[2].confidence
    /\ calc.results[2] = Some(getFaceCenter(calc.frames[2].detections[2]))

\* C25: updateJob, updateJobProgress, completeJob and failJob called with an
\* id the store does not hold throw 'Job not found' and leave the store as
\* it was: no record for the id, no other record changed.
UpdateOfMissingJobThrows ==
    (/\ calc.fn = "jobStore"
     /\ calc.last # NoCall
     /\ calc.last.jobId \notin DOMAIN calc.last.before)
    => /\ calc.last.thrown = Some(JobNotFound)
       /\ calc.store = calc.last.before
       /\ calc.last.jobId \notin DOMAIN calc.store

\* A call for an id the store does not hold, after a call that updated a
\* job the store holds.
UpdateOfMissingJobThrowsWitness ==
    /\ calc.fn = "jobStore"
    /\ calc.calls = 2
    /\ calc.last.jobId \notin DOMAIN calc.last.before
    /\ calc.last.before # <<>>
    /\ \E id \in DOMAIN calc.store : calc.store[id].status # "pending"
    /\ calc.last.thrown = Some(JobNotFound)

\* x = current / speed for a duration x, in tenths
IsCurrentOverSpeed(x, current, speed) ==
    /\ x.kind = "finite"
    /\ x.n * speed.n = current * speed.d * x.d

\* C26: for durations above 0, the clip the duration matcher returns lasts
\* current / clamp(current / target, 0.5, 2.0), in the browser pipeline and
\* in the server pipeline.
MatchedDurationIsCurrentOverSpeed ==
    (/\ calc.fn = "adjustDuration" /\ calc.done
     /\ calc.targetDuration > 0 /\ calc.currentDuration > 0)
    => /\ IsCurrentOverSpeed(calc.duration, calc.currentDuration, calc.clampedSpeed)
       /\ IsCurrentOverSpeed(calc.serverDuration, calc.currentDuration,
                             calc.clampedSpeed)

\* Twice the weight of a word: twice its length, plus 6 after . ! ?, plus 3
\* after , ; :
TwiceWeight(word) ==
    2 * word.length + (IF word.ends = "." THEN 6 ELSE IF word.ends = "," THEN 3 ELSE 0)

\* endTime - startTime of a caption word, exactly, in units of 2^-20 s.
WordSpan(w) ==
    w.endTime.m * 2^(w.endTime.e + 20) - w.startTime.m * 2^(w.startTime.e + 20)

\* The spans of the caption words of a segment are proportional to the
\* weights of its words.
SpansFollowWeights(captionWords, script) ==
    LET words == SplitWords(script)
    IN  \A a, b \in DOMAIN captionWords :
            WordSpan(captionWords[a]) * TwiceWeight(words[b])
                = WordSpan(captionWords[b]) * TwiceWeight(words[a])

\* C27: in the captions of the browser generator and in the captions the
\* server stores on the job, the duration of each word is proportional to
\* its weight.
WordDurationFollowsWeight ==
    (calc.fn = "captions" /\ calc.done) =>
        \A i \in DOMAIN calc.segments :
            /\ SpansFollowWeights(calc.captions[i].words, calc.segments[i].script)
            /\ SpansFollowWeights(calc.serverCaptions[i].words,
                                  calc.segments[i].script)

\* C28: the audio synthesizeText(text, v) returns is synthesized with voice
\* v, also while calls for other voices are in flight, and piperInstance is
\* non-null exactly when currentVoice is.
AudioHasRequestedVoice ==
    loader.kind = "piper" =>
        /\ \A c \in DOMAIN callers :
              callers[c].state = "returned" => callers[c].audio = callers[c].voice
        /\ (loader.piperInstance # 0) <=> (loader.currentVoice # None)

\* C29: in every state of a job record, status is pending exactly when the
\* stage is queued, complete exactly when it is complete, error exactly
\* when it is error, and processing otherwise; outputUrl and completedAt
\* are set only in status complete, with progress 100, and error only in
\* status error.
StatusAgreesWithStage ==
    \A id \in DOMAIN memoryStore :
        LET job == memoryStore[id]
        IN  /\ job.status \in {"pending", "processing", "complete", "error"}
            /\ job.status = "pending" <=> job.stage = "queued"
            /\ job.status = "complete" <=> job.stage = "complete"
            /\ job.status = "error" <=> job.stage = "error"
            /\ job.outputUrl # None =>
                  /\ job.status = "complete"
                  /\ job.progress = Percent(100, job.totalSegments)
            /\ job.completedAt # None =>
                  /\ job.status = "complete"
                  /\ job.progress = Percent(100, job.totalSegments)
            /\ job.status = "complete" =>
                  job.outputUrl # None /\ job.completedAt # None
            /\ job.error # None => job.status = "error"

\* A job that failed after progress was written: status and stage error,
\* the error text stored, no output.
StatusAgreesWithStageWitness ==
    /\ HasJob
    /\ memoryStore[JobId].status = "error"
    /\ memoryStore[JobId].stage = "error"
    /\ memoryStore[JobId].error # None
    /\ memoryStore[JobId].outputUrl = None
    /\ memoryStore[JobId].progress > 0

\* C30: the stored currentSegment is always a number between 0 and
\* totalSegments; no updateJobProgress, completeJob or failJob call leaves
\* it undefined.
CurrentSegmentAlwaysDefined ==
    \A id \in DOMAIN memoryStore :
        /\ memoryStore[id].currentSegment # None
        /\ memoryStore[id].currentSegment[1] \in 0..memoryStore[id].totalSegments

\* The input snapshot of a job record and its creation time.
InputSnapshot(job) ==
    [k \in {"id", "videoUrl", "segments", "voiceId", "musicUrl", "musicVolume",
            "includeCaptions", "totalSegments", "createdAt"} |-> job[k]]

\* A status request is answered in this step.
StatusAnswered ==
    \E r \in DOMAIN poller.requests :
        /\ poller.requests[r].state = "sent"
        /\ poller'.requests[r].state = "replied"

\* C31: whatever store calls the run of a job has made, the stored record's
\* id, videoUrl, segments, voiceId, musicUrl, musicVolume, includeCaptions,
\* totalSegments and createdAt are those of the record POST created, and a
\* step that answers GET /api/status/[jobId] leaves every job record as it
\* was.
InputSnapshotIsFrozen ==
    /\ [](\A id \in DOMAIN memoryStore :
              InputSnapshot(memoryStore[id]) = InputSnapshot(NewJob(body)))
    /\ [][StatusAnswered => memoryStore' = memoryStore]_vars

InputSnapshotIsFrozenWitness ==
    /\ HasJob
    /\ memoryStore[JobId].status \in {"complete", "error"}
    /\ memoryStore[JobId].stage # "queued"
    /\ \E r \in DOMAIN poller.requests : poller.requests[r].state # "sent"

\* C33: once the client has processed a poll reply with status complete or
\* error, the stage it displays is complete or error, whatever replies to
\* earlier poll requests are processed afterwards.
DisplayedStageStaysTerminal ==
    poller.terminalProcessed => poller.view \in {"complete", "error"}

\* C32: with several jobs running in one process, every clip a job's
\* extractClip, applyCrop or adjustDuration returned, and the data the job
\* holds, is derived from that job's own source video, and no job has
\* overwritten or deleted a scratch file another job wrote.
JobsKeepToTheirOwnFiles ==
    /\ loader.kind = "processor" =>
          /\ ~loader.clobbered
          /\ \A j \in DOMAIN callers :
                /\ callers[j].data = j
                /\ \A k \in DOMAIN callers[j].clips : callers[j].clips[k] = j

\* C34: after a load of the server's or the browser's FFmpeg has failed, a
\* later getFFmpeg call is not handed the failed load: whenever getFFmpeg
\* would return the stored promise, that promise has not been rejected, so
\* a call made after a failure starts a new load that can succeed.
FailedLoadIsNotKept ==
    loader.kind \in {"serverFFmpeg", "browserFFmpeg"} =>
        (~Ready(loader) /\ LoadPromise(loader) # 0 =>
            loader.promises[LoadPromise(loader)].state # "rejected")

\* C35: in the stitched output of the server every segment starts at the
\* sum of the voice durations of the segments before it, which is the offset
\* generateCaptions gives the segment's words, for every voice duration.
SegmentsStartAtCaptionOffsets ==
    calc.fn = "timeline" /\ calc.done =>
        \A i \in DOMAIN calc.durations : calc.starts[i] = calc.offsets[i]

\* C36: with a known source-video duration, after any sequence of script
\* imports, added segments, source timestamp edits and removals every
\* segment's sourceTimestamp lies between 0 and the duration.
SourceTimestampsWithinVideo ==
    calc.fn = "ScriptTable" =>
        \A k \in DOMAIN calc.segments :
            0 <= calc.segments[k] /\ calc.segments[k] <= calc.videoDuration

\* C37: a browser run that has ended in the error stage has changed neither
\* project.outputVideo nor project.captions: both are what they were when
\* the step was mounted, which is undefined for every project of a run here.
FailedBrowserRunKeepsOutputs ==
    (bpc = "done" /\ processingState.stage = "error") =>
        /\ project.outputVideo = None
        /\ project.captions = None

\* The ids of the defined entries of a list, in list order.
IdsOf(list) ==
    LET defined == SelectSeq(list, LAMBDA seg : seg # None)
    IN  [k \in DOMAIN defined |-> defined[k][1].id]

\* `list` holds the entries of `other`, each as often, in some order.
IsPermutation(list, other) ==
    /\ Len(list) = Len(other)
    /\ \A k \in DOMAIN other :
          Cardinality({i \in DOMAIN list : list[i] = other[k]})
              = Cardinality({i \in DOMAIN other : other[i] = other[k]})

\* The ids of `kept` appear in `list` in the same relative order.
KeepsOrder(list, kept) ==
    SelectSeq(IdsOf(list), LAMBDA id : \E k \in DOMAIN kept : IdsOf(kept)[k] = id)
        = IdsOf(kept)

\* C38: for every list and every pair of integer indices reorderSegments
\* yields a permutation of the list it was given, with no undefined entry,
\* and addSegment, updateSegment and removeSegment keep the relative order
\* of the segments that remain.
ReorderPermutesSegments ==
    calc.fn = "segments" =>
        /\ calc.action = "reorderSegments" =>
              /\ IsPermutation(calc.segments, calc.before)
              /\ \A k \in DOMAIN calc.segments : calc.segments[k] # None
        /\ calc.action = "addSegment" => KeepsOrder(calc.segments, calc.before)
        /\ calc.action = "updateSegment" =>
              IdsOf(calc.segments) = IdsOf(calc.before)
        /\ calc.action = "removeSegment" => KeepsOrder(calc.before, calc.segments)

====
